---- MODULE Spec2Model ----
(***************************************************************************)
(* Model of the sampler: the AudioEngine (pad store, playback, recording,   *)
(* detection of sound segments) and the waveform editor's redraw loop.     *)
(*                                                                         *)
(* Units: times (trim points, buffer durations) are whole seconds and      *)
(* gains are whole numbers, so DEFAULT_GAIN 1.0 is 1 and MAX_GAIN 2.0 is 2.*)
(* A JavaScript null buffer is NullBuffer; a null string is NullName.      *)
(***************************************************************************)
EXTENDS Integers, Sequences, FiniteSets, TLC

VARIABLES
    ctx,         \* AudioEngine.ctx is non-null
    masterGain,  \* AudioEngine.masterGain is non-null
    pads,        \* AudioEngine.pads: index -> Pad, over the indices the array holds
    decoding,    \* loadSound calls suspended at `await decodeAudioData`
    fetching,    \* loadSoundFromURL calls suspended at `await fetch`
    started,     \* the buffer sources started on the output device, in order
    last,        \* the last call or completion: its arguments, how it ended, pads and started before it
    steps,       \* number of calls made so far
    \* recording (AudioEngine and the browser's MediaRecorder / MediaStream objects)
    mediaRecorder,   \* AudioEngine.mediaRecorder: a recorder's number, 0 for null
    mediaStream,     \* AudioEngine.mediaStream: a stream's number, 0 for null
    recordedChunks,  \* AudioEngine.recordedChunks
    streams,         \* the streams getUserMedia has returned: "live" or "ended"
    recorders,       \* the MediaRecorder objects constructed
    requests,        \* startRecording calls suspended at `await getUserMedia`
    stopCalls,       \* the promises stopRecording has returned
    recDecoding,     \* onstop handlers suspended at their awaits
    recLast,         \* the last recording call or event
    recSteps,        \* number of recording calls made so far
    \* the waveform editor component and the browser's animation frames
    editor,          \* whether it is mounted, and the props of its last render
    cleanupGen,      \* the run of the interaction effect whose cleanup is registered, 0 for none
    loopRefGen,      \* the run whose startAnimationLoop startAnimationLoopRef.current is, 0 for the initial no-op
    frameIds,        \* animationFrameId of every run of the interaction effect, 0 for undefined
    trimbarsDrawer,  \* trimbarsDrawerRef.current is non-null
    frames,          \* the callbacks requestAnimationFrame holds
    loopLast,        \* the last render, unmount or frame
    loopSteps,       \* number of renders and unmounts so far
    \* one run of detectSoundSegments
    segInput,        \* its arguments
    segPc,           \* "idle", "scan" (in the for loop) or "done" (returned)
    segI,            \* i
    isInSound,
    soundStart,
    silenceStart,
    segments,
    \* one call of splitBuffer
    splitInput,      \* its arguments, and whether the engine was initialized
    splitResult,     \* what it returned or threw
    \* a TrimbarsDrawer
    leftTrimBar,     \* x, selected, dragged
    rightTrimBar,
    barsStart,       \* the positions its constructor was given
    barsLast,        \* the last call made on it, and the bars before that call
    \* one run of PresetService.audioBufferToWav
    wavInput,        \* its argument
    wavPc,           \* "idle", "samples" (in the loop over the frames) or "done"
    wavI,            \* i
    wavBuffer,       \* the bytes of wavBuffer
    \* the recording panel of PadsGrid
    recordedBuffer,
    detectedSegments,
    gridLast,        \* the last call on the panel or the engine, with the pads before it
    gridSteps,       \* number of calls made on the panel so far
    \* the preset input of PadsGrid
    presetCalls,     \* the loadPreset calls made so far: preset, position, i
    \* the recording controls of PadsGrid
    gridIsRecording,     \* the isRecording signal
    showRecordingPanel,
    gridPc,              \* "initialized" while startRecording awaits initialize()
    gridStopsContinued,  \* the stopRecording promises whose await has returned
    \* SamplerGUI's waveform section
    selectedPadIndex,
    guiFrames,           \* the requestAnimationFrame callbacks of selectPad not yet run
    padsBefore,          \* the pads when the GUI was constructed
    \* the waveform canvas of PadsGrid
    gridEditor           \* selectedPadIndex, trimStart, trimEnd, isDragging, audioDuration

engineVars == <<ctx, masterGain, pads, decoding, fetching, started, last, steps>>
recVars == <<mediaRecorder, mediaStream, recordedChunks, streams, recorders,
             requests, stopCalls, recDecoding, recLast, recSteps>>
loopVars == <<editor, cleanupGen, loopRefGen, frameIds, trimbarsDrawer, frames,
              loopLast, loopSteps>>
segVars == <<segInput, segPc, segI, isInSound, soundStart, silenceStart, segments>>
splitVars == <<splitInput, splitResult>>
barVars == <<leftTrimBar, rightTrimBar, barsStart, barsLast>>
wavVars == <<wavInput, wavPc, wavI, wavBuffer>>
gridVars == <<recordedBuffer, detectedSegments, gridLast, gridSteps>>
panelVars == <<gridIsRecording, showRecordingPanel, gridPc, gridStopsContinued, gridEditor>>
samplerVars == <<selectedPadIndex, guiFrames, padsBefore>>
guiVars == <<presetCalls, panelVars, samplerVars>>
restVars == <<splitVars, barVars, wavVars, gridVars, guiVars>>
vars == <<engineVars, recVars, loopVars, segVars, restVars>>

----------------------------------------------------------------------------
(* Bounds of the model *)

MaxOps == 3
MaxPending == 1
\* recording: calls made, streams granted, timeslice chunks of one recorder
MaxRecOps == 3
MaxStreams == 2
MaxChunks == 1
\* waveform editor: renders and unmounts, animation frames requested
MaxRenders == 4
MaxFrames == 4
\* detectSoundSegments: samples in a buffer
MaxSamples == 6

----------------------------------------------------------------------------
(* AUDIO_CONFIG *)

MAX_PADS == 16
DEFAULT_GAIN == 1
MAX_GAIN == 2
MIN_GAIN == 0

----------------------------------------------------------------------------
(* Values *)

Max(a, b) == IF a >= b THEN a ELSE b
Min(a, b) == IF a <= b THEN a ELSE b

NullBuffer == [id |-> "null", duration |-> 0]
BufA == [id |-> "A", duration |-> 2]
BufB == [id |-> "B", duration |-> 3]
Buffers == {BufA, BufB}

\* string | null
NullName == [isNull |-> TRUE, str |-> ""]
Str(s) == [isNull |-> FALSE, str |-> s]
\* JavaScript truthiness of a string | null
Truthy(name) == ~name.isNull /\ name.str # ""

\* Arguments of the calls. A call with an index outside [0,16) is tried with one
\* choice of its other arguments, a call with an index in range with all of them.
PadIndexes == {-1, 3, 5, 16}
TrimTimes == {-1, 1, 100}
Gains == {-1, 0, 3}
BufferNames == {"", "kick"}
OneOf(S) == CHOOSE x \in S : TRUE
ArgsFor(i, S) == IF i \in {-1, 16} THEN {OneOf(S)} ELSE S

\* ArrayBuffers handed to decodeAudioData: what they decode to, NullBuffer when malformed
WavB == [bytes |-> "wavB", decoded |-> BufB]
Junk == [bytes |-> "junk", decoded |-> NullBuffer]
decodeAudioData(audioData) == audioData.decoded
\* loadSound's <<audioData, name>>
SoundArgs == {<<WavB, NullName>>, <<WavB, Str("")>>, <<WavB, Str("kick")>>, <<Junk, NullName>>}

\* URLs: the response's ok flag, its body, and the last path component without extension
SnareUrl == [file |-> "snare", ok |-> TRUE, body |-> WavB]
JunkUrl == [file |-> "", ok |-> TRUE, body |-> Junk]
GoneUrl == [file |-> "gone", ok |-> FALSE, body |-> Junk]
\* loadSoundFromURL's <<url, customName>>
UrlArgs == {<<SnareUrl, NullName>>, <<SnareUrl, Str("hat")>>, <<JunkUrl, NullName>>,
            <<GoneUrl, NullName>>}

----------------------------------------------------------------------------
(* Pad management *)

\* mutant: the default name numbered from 0
createEmptyPad_zeroBased(index) ==
    [index |-> index,
     buffer |-> NullBuffer,
     name |-> "Pad " \o ToString(index),
     loaded |-> FALSE,
     trimStart |-> 0,
     trimEnd |-> 1,
     gain |-> DEFAULT_GAIN]

createEmptyPad(index) ==
    [index |-> index,
     buffer |-> NullBuffer,
     name |-> "Pad " \o ToString(index + 1),
     loaded |-> FALSE,
     trimStart |-> 0,
     trimEnd |-> 1,
     gain |-> DEFAULT_GAIN]

initializePads == [i \in 0..(MAX_PADS - 1) |-> createEmptyPad(i)]

isValidPadIndex(padIndex) == padIndex >= 0 /\ padIndex < MAX_PADS

\* this.pads[padIndex] is an object (not undefined)
HasPad(padIndex) == padIndex \in DOMAIN pads

\* this.pads[padIndex] = pad, which also creates the element when the array lacks it
StorePad(ps, padIndex, pad) ==
    [i \in (DOMAIN ps) \cup {padIndex} |-> IF i = padIndex THEN pad ELSE ps[i]]

Done(op, args, result) ==
    last' = [op |-> op, args |-> args, result |-> result,
             before |-> pads, startedBefore |-> started]

Call == steps < MaxOps /\ steps' = steps + 1

\* an asynchronous call: one more promise in flight
AsyncCall == Call /\ Cardinality(decoding) + Cardinality(fetching) < MaxPending

\* the recording fields after construction, in a browser that has handed out
\* no stream yet
InitRec ==
    /\ mediaRecorder = 0
    /\ mediaStream = 0
    /\ recordedChunks = <<>>
    /\ streams = <<>>
    /\ recorders = <<>>
    /\ requests = 0
    /\ stopCalls = <<>>
    /\ recDecoding = {}
    /\ recLast = [op |-> "new", result |-> "ok", subject |-> 0, idleBefore |-> TRUE]
    /\ recSteps = 0

\* no waveform editor is mounted and no frame is requested
InitLoop ==
    /\ editor = [mounted |-> FALSE, pad |-> -1, visible |-> FALSE, ready |-> 0]
    /\ cleanupGen = 0
    /\ loopRefGen = 0
    /\ frameIds = <<>>
    /\ trimbarsDrawer = FALSE
    /\ frames = {}
    /\ loopLast = [op |-> "new", gen |-> 0, stale |-> FALSE]
    /\ loopSteps = 0

\* detectSoundSegments is not running
InitSeg ==
    /\ segInput = [data |-> <<>>, sampleRate |-> 1, silenceThreshold |-> 0,
                   minSilenceDuration |-> 0, minSoundDuration |-> 0]
    /\ segPc = "idle"
    /\ segI = 0
    /\ isInSound = FALSE
    /\ soundStart = 0
    /\ silenceStart = 0
    /\ segments = <<>>

\* splitBuffer has not been called
InitSplit ==
    /\ splitInput = [called |-> FALSE]
    /\ splitResult = <<>>

\* new TrimbarsDrawer(canvas, leftTrimBarX, rightTrimBarX)
newTrimBar(x) == [x |-> x, selected |-> FALSE, dragged |-> FALSE]

TrimbarsDrawer(leftTrimBarX, rightTrimBarX) ==
    /\ leftTrimBar = newTrimBar(leftTrimBarX)
    /\ rightTrimBar = newTrimBar(rightTrimBarX)
    /\ barsStart = [left |-> leftTrimBarX, right |-> rightTrimBarX]
    /\ barsLast = [op |-> "new", mousePos |-> [x |-> 0, y |-> 0],
                   left |-> newTrimBar(leftTrimBarX), right |-> newTrimBar(rightTrimBarX)]

\* the drawer as SamplerGUI and the waveform editor construct it
InitBars == TrimbarsDrawer(100, 800)

\* audioBufferToWav is not running
InitWav ==
    /\ wavInput = NullBuffer
    /\ wavPc = "idle"
    /\ wavI = 0
    /\ wavBuffer = <<>>

\* recordedBuffer = signal(null), detectedSegments = signal([])
InitGrid ==
    /\ recordedBuffer = NullBuffer
    /\ detectedSegments = <<>>
    /\ gridLast = [op |-> "new", buffer |-> NullBuffer, segments |-> <<>>,
                   splitBuffers |-> <<>>, before |-> <<>>]
    /\ gridSteps = 0

\* selectedPadIndex is null; -1 stands for the recorded sound
NullIndex == -2
\* the normalized position 1, in ninetieths
One == 90

InitPanel ==
    /\ presetCalls = <<>>
    /\ gridIsRecording = FALSE
    /\ showRecordingPanel = FALSE
    /\ gridPc = "idle"
    /\ gridStopsContinued = {}
    /\ gridEditor = [selectedPadIndex |-> NullIndex, trimStart |-> 0, trimEnd |-> One,
                     isDragging |-> "null", audioDuration |-> 0,
                     dragPad |-> NullIndex, trimCalls |-> {}]

InitGui ==
    /\ InitPanel
    /\ selectedPadIndex = -1
    /\ guiFrames = 0
    /\ padsBefore = <<>>

InitRest ==
    /\ InitGui
    /\ InitSplit
    /\ InitBars
    /\ InitWav
    /\ InitGrid

Init ==
    /\ InitRec
    /\ InitLoop
    /\ InitSeg
    /\ InitRest
    /\ ctx = FALSE
    /\ masterGain = FALSE
    /\ pads = <<>>
    /\ decoding = {}
    /\ fetching = {}
    /\ started = <<>>
    /\ last = [op |-> "new", args |-> <<>>, result |-> "ok",
               before |-> <<>>, startedBefore |-> <<>>]
    /\ steps = 0

Initialize ==
    IF ctx
      THEN UNCHANGED engineVars
      ELSE /\ ctx' = TRUE
           /\ masterGain' = TRUE
           /\ pads' = initializePads
           /\ Done("initialize", <<>>, "ok")
           /\ UNCHANGED <<decoding, fetching, started, steps>>

----------------------------------------------------------------------------
(* resetPad, clearPad, clearAll *)

Throws == {"throws:InvalidIndex", "throws:NotInitialized", "throws:TypeError",
           "throws:DecodeError", "throws:FetchError"}

\* mutant: trimStart is not reset
resetTrimAndGain_keepsStart(pad) ==
    [pad EXCEPT !.trimEnd = pad.buffer.duration, !.gain = DEFAULT_GAIN]

resetTrimAndGain(pad) ==
    [pad EXCEPT !.trimStart = 0, !.trimEnd = pad.buffer.duration, !.gain = DEFAULT_GAIN]

resetPad(padIndex) ==
    /\ Call
    /\ IF ~isValidPadIndex(padIndex)
         THEN UNCHANGED pads /\ Done("resetPad", <<padIndex>>, "ok")
         ELSE IF ~HasPad(padIndex)
           THEN UNCHANGED pads /\ Done("resetPad", <<padIndex>>, "throws:TypeError")
           ELSE /\ pads' = IF pads[padIndex].loaded /\ pads[padIndex].buffer # NullBuffer
                             THEN [pads EXCEPT ![padIndex] = resetTrimAndGain(@)]
                             ELSE pads
                /\ Done("resetPad", <<padIndex>>, "ok")
    /\ UNCHANGED <<ctx, masterGain, decoding, fetching, started>>

\* mutant: every slot is cleared
clearedPads_all(ps, padIndex) ==
    [i \in (DOMAIN ps) \cup {padIndex} |-> createEmptyPad(i)]

clearedPads(ps, padIndex) == StorePad(ps, padIndex, createEmptyPad(padIndex))

clearPad(padIndex) ==
    /\ Call
    /\ pads' = IF ~isValidPadIndex(padIndex) THEN pads ELSE clearedPads(pads, padIndex)
    /\ Done("clearPad", <<padIndex>>, "ok")
    /\ UNCHANGED <<ctx, masterGain, decoding, fetching, started>>

clearAll ==
    /\ Call
    /\ pads' = [i \in DOMAIN pads |->
                  IF ~isValidPadIndex(i) THEN pads[i] ELSE createEmptyPad(i)]
    /\ Done("clearAll", <<>>, "ok")
    /\ UNCHANGED <<ctx, masterGain, decoding, fetching, started>>

----------------------------------------------------------------------------
(* Loading *)

\* mutant: the gain is not reset
loadedPad_keepsGain(pad, buffer, name) ==
    [pad EXCEPT !.buffer = buffer, !.name = name, !.loaded = TRUE,
                !.trimStart = 0, !.trimEnd = buffer.duration]

loadedPad(pad, buffer, name) ==
    [pad EXCEPT !.buffer = buffer, !.name = name, !.loaded = TRUE,
                !.trimStart = 0, !.trimEnd = buffer.duration, !.gain = DEFAULT_GAIN]

loadBuffer(padIndex, buffer, name) ==
    /\ Call
    /\ IF ~isValidPadIndex(padIndex)
         THEN UNCHANGED pads /\ Done("loadBuffer", <<padIndex, buffer, name>>, "throws:InvalidIndex")
         ELSE IF ~HasPad(padIndex)
           THEN UNCHANGED pads /\ Done("loadBuffer", <<padIndex, buffer, name>>, "throws:TypeError")
           ELSE /\ pads' = [pads EXCEPT ![padIndex] = loadedPad(@, buffer, name)]
                /\ Done("loadBuffer", <<padIndex, buffer, name>>, "ok")
    /\ UNCHANGED <<ctx, masterGain, decoding, fetching, started>>

\* name || `Pad ${padIndex + 1}`
soundName(padIndex, name) ==
    IF Truthy(name) THEN name.str ELSE "Pad " \o ToString(padIndex + 1)

\* loadSound up to its await: the checks, then the decode is in flight
loadSoundCalled(op, args, padIndex, audioData, name) ==
    IF ~ctx
      THEN UNCHANGED decoding /\ Done(op, args, "throws:NotInitialized")
      ELSE IF ~isValidPadIndex(padIndex)
        THEN UNCHANGED decoding /\ Done(op, args, "throws:InvalidIndex")
        ELSE /\ decoding' = decoding \cup
                   {[id |-> steps, padIndex |-> padIndex, audioData |-> audioData, name |-> name]}
             /\ Done(op, args, "pending")

loadSound(padIndex, audioData, name) ==
    /\ AsyncCall
    /\ loadSoundCalled("loadSound", <<padIndex, audioData, name>>, padIndex, audioData, name)
    /\ UNCHANGED <<ctx, masterGain, pads, fetching, started>>

\* decodeAudioData resolved: the rest of the try block
decodeResolved(d) ==
    /\ d \in decoding
    /\ decodeAudioData(d.audioData) # NullBuffer
    /\ decoding' = decoding \ {d}
    /\ pads' = [pads EXCEPT ![d.padIndex] =
                  loadedPad(@, decodeAudioData(d.audioData), soundName(d.padIndex, d.name))]
    /\ Done("loadSound.resolved", <<d.padIndex, decodeAudioData(d.audioData), d.name>>, "ok")
    /\ UNCHANGED <<ctx, masterGain, fetching, started, steps>>

\* mutant: the catch block empties the slot
caughtDecodeError_clears(ps, padIndex) == StorePad(ps, padIndex, createEmptyPad(padIndex))

\* the pads the catch block of loadSound leaves
caughtDecodeError(ps, padIndex) == ps

\* decodeAudioData rejected: the catch block rethrows
decodeRejected(d) ==
    /\ d \in decoding
    /\ decodeAudioData(d.audioData) = NullBuffer
    /\ decoding' = decoding \ {d}
    /\ pads' = caughtDecodeError(pads, d.padIndex)
    /\ Done("loadSound.rejected", <<d.padIndex, d.audioData, d.name>>, "throws:DecodeError")
    /\ UNCHANGED <<ctx, masterGain, fetching, started, steps>>

extractFileNameFromUrl(url) == IF url.file = "" THEN "sound" ELSE url.file

loadSoundFromURL(padIndex, url, customName) ==
    /\ AsyncCall
    /\ IF ~ctx
         THEN UNCHANGED fetching /\ Done("loadSoundFromURL", <<padIndex, url, customName>>, "throws:NotInitialized")
         ELSE /\ fetching' = fetching \cup
                    {[id |-> steps, padIndex |-> padIndex, url |-> url, customName |-> customName]}
              /\ Done("loadSoundFromURL", <<padIndex, url, customName>>, "pending")
    /\ UNCHANGED <<ctx, masterGain, pads, decoding, started>>

\* the response is not ok: loadSoundFromURL throws
fetchFailed(f) ==
    /\ f \in fetching
    /\ ~f.url.ok
    /\ fetching' = fetching \ {f}
    /\ Done("loadSoundFromURL.failed", <<f.padIndex, f.url, f.customName>>, "throws:FetchError")
    /\ UNCHANGED <<ctx, masterGain, pads, decoding, started, steps>>

\* the response is ok: the body is read and handed to loadSound
fetchOk(f) ==
    /\ f \in fetching
    /\ f.url.ok
    /\ fetching' = fetching \ {f}
    /\ LET fileName == IF Truthy(f.customName) THEN f.customName.str
                                               ELSE extractFileNameFromUrl(f.url)
       IN loadSoundCalled("loadSoundFromURL.fetched", <<f.padIndex, f.url, f.customName>>,
                          f.padIndex, f.url.body, Str(fileName))
    /\ UNCHANGED <<ctx, masterGain, pads, started, steps>>

----------------------------------------------------------------------------
(* Playback *)

\* mutant: the end is not clamped against the start
playBuffer_endBeforeStart(buffer, startTime, endTime, gain) ==
    LET clampedStart == Max(0, Min(startTime, buffer.duration))
        clampedEnd == Min(endTime, buffer.duration)
    IN [buffer |-> buffer, offset |-> clampedStart,
        duration |-> clampedEnd - clampedStart, gain |-> gain]

\* the buffer source playBuffer starts: source.start(0, offset, duration)
playBuffer(buffer, startTime, endTime, gain) ==
    LET clampedStart == Max(0, Min(startTime, buffer.duration))
        clampedEnd == Max(clampedStart, Min(endTime, buffer.duration))
    IN [buffer |-> buffer, offset |-> clampedStart,
        duration |-> clampedEnd - clampedStart, gain |-> gain]

\* mutant: one source node is reused, so a new play restarts it
startSource_reused(sources, source) == <<source>>

\* createBufferSource and createGain make fresh nodes for every call, and
\* source.start adds the new source to those already playing
startSource(sources, source) == Append(sources, source)

\* mutant: no check that the pad is loaded
playWarning_noLoadedCheck(padIndex) ==
    IF ~ctx \/ ~masterGain THEN "warn:NotInitialized"
    ELSE IF ~isValidPadIndex(padIndex) THEN "warn:InvalidIndex"
    ELSE "none"

\* the warning play returns with, "none" when it goes on to play
playWarning(padIndex) ==
    IF ~ctx \/ ~masterGain THEN "warn:NotInitialized"
    ELSE IF ~isValidPadIndex(padIndex) THEN "warn:InvalidIndex"
    ELSE IF ~pads[padIndex].loaded \/ pads[padIndex].buffer = NullBuffer THEN "warn:NotLoaded"
    ELSE "none"

play(padIndex) ==
    /\ Call
    /\ IF playWarning(padIndex) # "none"
         THEN UNCHANGED started /\ Done("play", <<padIndex>>, playWarning(padIndex))
         ELSE /\ started' = startSource(started,
                    playBuffer(pads[padIndex].buffer, pads[padIndex].trimStart,
                               pads[padIndex].trimEnd, pads[padIndex].gain))
              /\ Done("play", <<padIndex>>, "ok")
    /\ UNCHANGED <<ctx, masterGain, pads, decoding, fetching>>

----------------------------------------------------------------------------
(* Trim and gain *)

trimmedPad(pad, startTime, endTime) ==
    [pad EXCEPT !.trimStart = Max(0, startTime),
                !.trimEnd = Min(pad.buffer.duration, endTime)]

setTrimPoints(padIndex, startTime, endTime) ==
    /\ Call
    /\ IF ~isValidPadIndex(padIndex)
         THEN UNCHANGED pads /\ Done("setTrimPoints", <<padIndex, startTime, endTime>>, "ok")
         ELSE IF ~HasPad(padIndex)
           THEN UNCHANGED pads /\ Done("setTrimPoints", <<padIndex, startTime, endTime>>, "throws:TypeError")
           ELSE /\ pads' = IF ~pads[padIndex].loaded \/ pads[padIndex].buffer = NullBuffer
                             THEN pads
                             ELSE [pads EXCEPT ![padIndex] = trimmedPad(@, startTime, endTime)]
                /\ Done("setTrimPoints", <<padIndex, startTime, endTime>>, "ok")
    /\ UNCHANGED <<ctx, masterGain, decoding, fetching, started>>

\* mutant: no upper limit
clampGain_noMax(gain) == Max(MIN_GAIN, gain)

clampGain(gain) == Max(MIN_GAIN, Min(MAX_GAIN, gain))

setGain(padIndex, gain) ==
    /\ Call
    /\ IF ~isValidPadIndex(padIndex)
         THEN UNCHANGED pads /\ Done("setGain", <<padIndex, gain>>, "ok")
         ELSE IF ~HasPad(padIndex)
           THEN UNCHANGED pads /\ Done("setGain", <<padIndex, gain>>, "throws:TypeError")
           ELSE /\ pads' = [pads EXCEPT ![padIndex].gain = clampGain(gain)]
                /\ Done("setGain", <<padIndex, gain>>, "ok")
    /\ UNCHANGED <<ctx, masterGain, decoding, fetching, started>>

----------------------------------------------------------------------------

Next ==
    \/ Initialize /\ UNCHANGED <<recVars, loopVars, segVars, restVars>>
    \/ \E i \in PadIndexes : resetPad(i) /\ UNCHANGED <<recVars, loopVars, segVars, restVars>>
    \/ \E i \in PadIndexes : clearPad(i) /\ UNCHANGED <<recVars, loopVars, segVars, restVars>>
    \/ clearAll /\ UNCHANGED <<recVars, loopVars, segVars, restVars>>
    \/ \E i \in PadIndexes : \E a \in ArgsFor(i, Buffers \X BufferNames) : loadBuffer(i, a[1], a[2]) /\ UNCHANGED <<recVars, loopVars, segVars, restVars>>
    \/ \E i \in PadIndexes : \E a \in ArgsFor(i, SoundArgs) : loadSound(i, a[1], a[2]) /\ UNCHANGED <<recVars, loopVars, segVars, restVars>>
    \/ \E d \in decoding : decodeResolved(d) /\ UNCHANGED <<recVars, loopVars, segVars, restVars>>
    \/ \E d \in decoding : decodeRejected(d) /\ UNCHANGED <<recVars, loopVars, segVars, restVars>>
    \/ \E i \in PadIndexes : \E a \in ArgsFor(i, UrlArgs) : loadSoundFromURL(i, a[1], a[2]) /\ UNCHANGED <<recVars, loopVars, segVars, restVars>>
    \/ \E f \in fetching : fetchFailed(f) /\ UNCHANGED <<recVars, loopVars, segVars, restVars>>
    \/ \E f \in fetching : fetchOk(f) /\ UNCHANGED <<recVars, loopVars, segVars, restVars>>
    \/ \E i \in PadIndexes : play(i) /\ UNCHANGED <<recVars, loopVars, segVars, restVars>>
    \/ \E i \in PadIndexes : \E a \in ArgsFor(i, TrimTimes \X TrimTimes) : setTrimPoints(i, a[1], a[2]) /\ UNCHANGED <<recVars, loopVars, segVars, restVars>>
    \/ \E i \in PadIndexes : \E g \in ArgsFor(i, Gains) : setGain(i, g) /\ UNCHANGED <<recVars, loopVars, segVars, restVars>>

Spec == Init /\ [][Next]_vars

----------------------------------------------------------------------------
(* Properties of the pad store and of playback *)

Clamp(x, lo, hi) == IF x < lo THEN lo ELSE IF x > hi THEN hi ELSE x
DefaultName(i) == "Pad " \o ToString(i + 1)
EmptyDefault(i) ==
    [index |-> i, buffer |-> NullBuffer, name |-> DefaultName(i), loaded |-> FALSE,
     trimStart |-> 0, trimEnd |-> 1, gain |-> 1]
InRange(i) == i >= 0 /\ i < 16
\* the slot the last call addressed existed, and the pad it held
Addressed == last.args # <<>> /\ last.args[1] \in DOMAIN last.before
Was == last.before[last.args[1]]
Now == pads[last.args[1]]
OthersUnchanged ==
    \A j \in DOMAIN last.before :
        j # last.args[1] => j \in DOMAIN pads /\ pads[j] = last.before[j]

\* C1: a loaded pad always satisfies 0 <= trimStart <= trimEnd <= buffer.duration.
C1_PadTrimInvariant ==
    \A i \in DOMAIN pads :
        pads[i].loaded =>
            /\ 0 <= pads[i].trimStart
            /\ pads[i].trimStart <= pads[i].trimEnd
            /\ pads[i].trimEnd <= pads[i].buffer.duration

\* C2: setTrimPoints(i, s, e) on a loaded pad of duration d stores
\* trimStart = clamp(s, 0, d) and trimEnd = clamp(e, trimStart, d); on an
\* unloaded pad it changes nothing.
C2_SetTrimClamps ==
    last.op = "setTrimPoints" /\ Addressed =>
        IF Was.loaded
          THEN /\ Now.trimStart = Clamp(last.args[2], 0, Was.buffer.duration)
               /\ Now.trimEnd = Clamp(last.args[3], Now.trimStart, Was.buffer.duration)
          ELSE pads = last.before

\* C3 as stated: a load into slot i (loadBuffer, or loadSound once decoded)
\* leaves the slot with that buffer and that name, loaded, trim reset to the
\* whole buffer and gain 1.
C3_LoadStoresGivenName ==
    /\ last.op = "loadBuffer" /\ InRange(last.args[1]) /\ Addressed =>
          Now = [index |-> last.args[1], buffer |-> last.args[2], name |-> last.args[3],
                 loaded |-> TRUE, trimStart |-> 0, trimEnd |-> last.args[2].duration,
                 gain |-> 1]
    /\ last.op = "loadSound.resolved" =>
          Now = [index |-> last.args[1], buffer |-> last.args[2],
                 name |-> IF last.args[3].isNull THEN DefaultName(last.args[1])
                                                 ELSE last.args[3].str,
                 loaded |-> TRUE, trimStart |-> 0, trimEnd |-> last.args[2].duration,
                 gain |-> 1]

\* C3 amended: as C3, except that loadSound given a null or an empty name
\* stores the default name 'Pad <index+1>'.
C3_LoadStores ==
    /\ last.op = "loadBuffer" /\ InRange(last.args[1]) /\ Addressed =>
          Now = [index |-> last.args[1], buffer |-> last.args[2], name |-> last.args[3],
                 loaded |-> TRUE, trimStart |-> 0, trimEnd |-> last.args[2].duration,
                 gain |-> 1]
    /\ last.op = "loadSound.resolved" =>
          Now = [index |-> last.args[1], buffer |-> last.args[2],
                 name |-> IF last.args[3].isNull \/ last.args[3].str = ""
                            THEN DefaultName(last.args[1])
                            ELSE last.args[3].str,
                 loaded |-> TRUE, trimStart |-> 0, trimEnd |-> last.args[2].duration,
                 gain |-> 1]

\* a decoded sound with an empty name replaced a loaded pad with another gain
C3_Witness ==
    /\ last.op = "loadSound.resolved"
    /\ last.args[3] = Str("")
    /\ Was.loaded
    /\ Was.gain # 1
    /\ Was.buffer # last.args[2]

LoadOps == {"loadBuffer", "loadSound", "loadSound.rejected", "loadSoundFromURL",
            "loadSoundFromURL.failed", "loadSoundFromURL.fetched"}

\* C4: a load that fails leaves every pad as it was; an index outside [0,16)
\* makes loadBuffer and loadSound fail, with the invalid-index failure once the
\* engine is initialized; a failed fetch or decode is reported.
C4_FailedLoadLeavesPads ==
    last.op \in LoadOps =>
        /\ last.result \in Throws => pads = last.before
        /\ last.op \in {"loadBuffer", "loadSound", "loadSoundFromURL.fetched"}
           /\ ~InRange(last.args[1]) =>
              /\ last.result \in Throws
              /\ last.op = "loadBuffer" \/ ctx => last.result = "throws:InvalidIndex"
        /\ last.op = "loadSound.rejected" => last.result = "throws:DecodeError"
        /\ last.op = "loadSoundFromURL.failed" => last.result = "throws:FetchError"

\* a decode failed for a slot that held a loaded pad
C4_Witness ==
    /\ last.op = "loadSound.rejected"
    /\ last.result = "throws:DecodeError"
    /\ Was.loaded

\* C5: a call addressed to slot i leaves every other slot unchanged.
C5_NoCrossPad ==
    last.op \in {"loadBuffer", "loadSound.resolved", "setTrimPoints", "setGain",
                 "resetPad", "clearPad"} => OthersUnchanged

\* slot i was changed while another slot held a loaded pad
C5_Witness ==
    /\ last.op \in {"loadBuffer", "setTrimPoints", "setGain", "resetPad", "clearPad"}
    /\ Addressed
    /\ Now # Was
    /\ \E j \in DOMAIN pads : j # last.args[1] /\ pads[j].loaded

\* C6: every pad's gain is in [0, 2]; setGain stores the gain clamped to
\* [0, 2]; load, reset (of a loaded pad) and clear set it to 1.
C6_GainInRange ==
    /\ \A i \in DOMAIN pads : 0 <= pads[i].gain /\ pads[i].gain <= 2
    /\ last.op = "setGain" /\ Addressed /\ InRange(last.args[1]) =>
          Now.gain = Clamp(last.args[2], 0, 2)
    /\ last.op \in {"loadBuffer", "loadSound.resolved", "clearPad"}
       /\ InRange(last.args[1]) /\ last.args[1] \in DOMAIN pads => Now.gain = 1
    /\ last.op = "resetPad" /\ Addressed /\ Was.loaded => Now.gain = 1

\* a gain above 2 was stored as 2
C6_Witness ==
    /\ last.op = "setGain"
    /\ Addressed
    /\ last.args[2] > 2
    /\ Now.gain = 2

\* C7: once the engine is initialized there are 16 slots and every unloaded
\* pad has no buffer, its default name, trimStart 0 and trimEnd 1; clearPad
\* leaves its slot the empty default, clearAll all 16.
C7_UnloadedIsEmptyDefault ==
    ctx =>
        /\ DOMAIN pads = 0..15
        /\ \A i \in DOMAIN pads :
              ~pads[i].loaded =>
                  /\ pads[i].buffer = NullBuffer
                  /\ pads[i].name = DefaultName(i)
                  /\ pads[i].trimStart = 0
                  /\ pads[i].trimEnd = 1
        /\ last.op = "clearPad" /\ InRange(last.args[1]) => Now = EmptyDefault(last.args[1])
        /\ last.op = "clearAll" => \A i \in 0..15 : pads[i] = EmptyDefault(i)

\* clearAll emptied two loaded pads
C7_Witness ==
    /\ ctx
    /\ last.op = "clearAll"
    /\ \E i, j \in DOMAIN last.before :
          i # j /\ last.before[i].loaded /\ last.before[j].loaded

\* C8: resetPad on a loaded pad sets trimStart 0, trimEnd = duration and gain 1
\* and nothing else; on an unloaded pad or an index outside [0,16) it changes
\* nothing.
C8_ResetPad ==
    last.op = "resetPad" =>
        IF InRange(last.args[1]) /\ Addressed /\ Was.loaded
          THEN /\ Now = [Was EXCEPT !.trimStart = 0, !.trimEnd = Was.buffer.duration,
                                    !.gain = 1]
               /\ OthersUnchanged
          ELSE pads = last.before

\* a loaded pad with both trim points moved was reset
C8_Witness ==
    /\ last.op = "resetPad"
    /\ Addressed
    /\ Was.loaded
    /\ Was.trimStart # 0
    /\ Was.trimEnd # Was.buffer.duration
    /\ Now.trimStart = 0

\* C9: play on an engine that is not initialized, with an index outside
\* [0,16), or on an unloaded pad starts nothing, raises nothing and changes no
\* pad.
C9_PlayNoOp ==
    last.op = "play"
    /\ (~ctx \/ ~InRange(last.args[1]) \/ ~Addressed \/ ~Was.loaded) =>
        /\ started = last.startedBefore
        /\ last.result \notin Throws
        /\ pads = last.before

\* play was called on an unloaded pad of an initialized engine
C9_Witness ==
    /\ last.op = "play"
    /\ ctx
    /\ InRange(last.args[1])
    /\ ~Was.loaded
    /\ \E j \in DOMAIN pads : pads[j].loaded

\* C10: play on a loaded pad of an initialized engine starts exactly one
\* playback of the pad's buffer at offset trimStart, lasting
\* trimEnd - trimStart, at the pad's gain, and changes no pad.
C10_PlayStartsTrimmedRegion ==
    last.op = "play" /\ ctx /\ InRange(last.args[1]) /\ Addressed /\ Was.loaded =>
        /\ started = Append(last.startedBefore,
                            [buffer |-> Was.buffer, offset |-> Was.trimStart,
                             duration |-> Was.trimEnd - Was.trimStart, gain |-> Was.gain])
        /\ pads = last.before

----------------------------------------------------------------------------
(* Playback of pads that a holder of getPad's reference has written to *)

\* getPad hands out the stored pad itself, so its holder can assign the trim
\* fields directly, as the "play full" button does
mutateTrim(padIndex, trimStart, trimEnd) ==
    /\ Call
    /\ isValidPadIndex(padIndex)
    /\ HasPad(padIndex)
    /\ pads' = [pads EXCEPT ![padIndex].trimStart = trimStart,
                            ![padIndex].trimEnd = trimEnd]
    /\ Done("mutateTrim", <<padIndex, trimStart, trimEnd>>, "ok")
    /\ UNCHANGED <<ctx, masterGain, decoding, fetching, started>>

\* the pads a session starts playing from: an initialized engine whose pads 3
\* and 5 are each empty or loaded
LoadedOrEmpty(i) ==
    {createEmptyPad(i)} \cup {loadedPad(createEmptyPad(i), b, "kick") : b \in Buffers}

InitPlay ==
    /\ ctx = TRUE
    /\ masterGain = TRUE
    /\ \E p3 \in LoadedOrEmpty(3) : \E p5 \in LoadedOrEmpty(5) :
           pads = [i \in DOMAIN initializePads |->
                      IF i = 3 THEN p3 ELSE IF i = 5 THEN p5 ELSE initializePads[i]]
    /\ decoding = {}
    /\ fetching = {}
    /\ started = <<>>
    /\ last = [op |-> "initialize", args |-> <<>>, result |-> "ok",
               before |-> <<>>, startedBefore |-> <<>>]
    /\ steps = 0
    /\ InitRec
    /\ InitLoop
    /\ InitSeg
    /\ InitRest

NextPlay ==
    \/ \E i \in PadIndexes : \E a \in ArgsFor(i, Buffers \X BufferNames) : loadBuffer(i, a[1], a[2]) /\ UNCHANGED <<recVars, loopVars, segVars, restVars>>
    \/ \E i \in PadIndexes : \E a \in ArgsFor(i, TrimTimes \X TrimTimes) : mutateTrim(i, a[1], a[2]) /\ UNCHANGED <<recVars, loopVars, segVars, restVars>>
    \/ \E i \in PadIndexes : \E a \in ArgsFor(i, TrimTimes \X TrimTimes) : setTrimPoints(i, a[1], a[2]) /\ UNCHANGED <<recVars, loopVars, segVars, restVars>>
    \/ \E i \in PadIndexes : \E g \in ArgsFor(i, Gains) : setGain(i, g) /\ UNCHANGED <<recVars, loopVars, segVars, restVars>>
    \/ \E i \in PadIndexes : clearPad(i) /\ UNCHANGED <<recVars, loopVars, segVars, restVars>>
    \/ \E i \in PadIndexes : play(i) /\ UNCHANGED <<recVars, loopVars, segVars, restVars>>

SpecPlay == InitPlay /\ [][NextPlay]_vars

\* C11: whatever finite trimStart and trimEnd a loaded pad holds, values
\* written from outside the engine included, every source handed to the
\* output device has 0 <= offset <= buffer.duration and
\* 0 <= duration <= buffer.duration - offset.
C11_PlaybackClamped ==
    \A k \in 1..Len(started) :
        /\ 0 <= started[k].offset
        /\ started[k].offset <= started[k].buffer.duration
        /\ 0 <= started[k].duration
        /\ started[k].duration <= started[k].buffer.duration - started[k].offset

\* a pad whose trim fields were written from outside, to a start beyond the
\* buffer and a negative end, has been played
C11_Witness ==
    /\ last.op = "play"
    /\ last.result = "ok"
    /\ Was.trimStart > Was.buffer.duration
    /\ Was.trimEnd < 0
    /\ Len(started) = Len(last.startedBefore) + 1

IsPrefix(s, t) == Len(s) <= Len(t) /\ SubSeq(t, 1, Len(s)) = s

\* C12: every successful play adds exactly one playback instance, and no
\* call (a later play on the same or another pad, a gain or trim change, a
\* load or a clear) stops, restarts or alters an instance started earlier.
C12_PlaysIndependent ==
    /\ IsPrefix(last.startedBefore, started)
    /\ last.op = "play" /\ last.result = "ok" =>
           Len(started) = Len(last.startedBefore) + 1
    /\ last.op # "play" \/ last.result # "ok" => started = last.startedBefore

\* a second instance was started while an earlier one, of another buffer or
\* of the same pad with other settings, is still there
C12_Witness ==
    /\ last.op = "play"
    /\ last.result = "ok"
    /\ Len(started) >= 2
    /\ started[Len(started)] # started[1]

----------------------------------------------------------------------------
(* Recording: startRecording, stopRecording, cancelRecording and the events *)
(* of the browser's MediaRecorder.  A MediaRecorder's stop() sets its state *)
(* to "inactive" at once and queues a dataavailable event followed by a stop*)
(* event; stop() on an inactive recorder throws InvalidStateError.          *)

ChunkSizes == {0, 1}

RecCall == recSteps < MaxRecOps /\ recSteps' = recSteps + 1

isRecording == mediaRecorder # 0 /\ recorders[mediaRecorder].state = "recording"

RecDone(op, result, subject) ==
    recLast' = [op |-> op, result |-> result, subject |-> subject,
                idleBefore |-> ~isRecording]

\* new MediaRecorder(stream, ...) with its ondataavailable handler, started
newRecorder(stream) ==
    [stream |-> stream, state |-> "recording", onstop |-> 0, events |-> <<>>,
     sliced |-> 0, cancelled |-> FALSE]

\* MediaRecorder.stop() on a recorder that is not inactive
stopped(rs, r) ==
    [rs EXCEPT ![r].state = "inactive", ![r].events = <<"dataavailable", "stop">>]

\* track.stop() on every track of the stream this.mediaStream refers to
tracksStopped == IF mediaStream = 0 THEN streams ELSE [streams EXCEPT ![mediaStream] = "ended"]

cleanupRecording ==
    /\ mediaRecorder' = 0
    /\ mediaStream' = 0
    /\ recordedChunks' = <<>>

\* startRecording up to `await getUserMedia`
startRecording ==
    /\ RecCall
    /\ IF ~ctx
         THEN UNCHANGED requests /\ RecDone("startRecording", "throws:NotInitialized", 0)
         ELSE requests' = requests + 1 /\ RecDone("startRecording", "pending", 0)
    /\ UNCHANGED <<mediaRecorder, mediaStream, recordedChunks, streams, recorders,
                   stopCalls, recDecoding, engineVars, loopVars, segVars, restVars>>

\* getUserMedia rejects (permission denied, no device): the catch rethrows
getUserMediaRejected ==
    /\ requests > 0
    /\ requests' = requests - 1
    /\ RecDone("startSettled", "throws:DeviceError", 0)
    /\ UNCHANGED <<mediaRecorder, mediaStream, recordedChunks, streams, recorders,
                   stopCalls, recDecoding, recSteps, engineVars, loopVars, segVars, restVars>>

\* getUserMedia resolves with a new stream; the MediaRecorder constructor
\* throws NotSupportedError when the browser cannot record the mime type
getUserMediaResolved(supported) ==
    /\ requests > 0
    /\ Len(streams) < MaxStreams
    /\ requests' = requests - 1
    /\ streams' = Append(streams, "live")
    /\ mediaStream' = Len(streams) + 1
    /\ recordedChunks' = <<>>
    /\ IF supported
         THEN /\ recorders' = Append(recorders, newRecorder(Len(streams) + 1))
              /\ mediaRecorder' = Len(recorders) + 1
              /\ RecDone("startSettled", "ok", Len(streams) + 1)
         ELSE /\ UNCHANGED <<recorders, mediaRecorder>>
              /\ RecDone("startSettled", "throws:NotSupported", Len(streams) + 1)
    /\ UNCHANGED <<stopCalls, recDecoding, recSteps, engineVars, loopVars, segVars, restVars>>

\* ondataavailable: a chunk with data is pushed onto this.recordedChunks
ondataavailable(r, size) ==
    /\ recordedChunks' = IF size > 0 THEN Append(recordedChunks, [rec |-> r]) ELSE recordedChunks
    /\ RecDone("dataavailable", IF size > 0 THEN "pushed" ELSE "empty", r)

\* a timeslice of recorder r has elapsed
timeslice(r, size) ==
    /\ recorders[r].state = "recording"
    /\ recorders[r].sliced < MaxChunks
    /\ recorders' = [recorders EXCEPT ![r].sliced = @ + 1]
    /\ ondataavailable(r, size)
    /\ UNCHANGED <<mediaRecorder, mediaStream, streams, requests, stopCalls,
                   recDecoding, recSteps, engineVars, loopVars, segVars, restVars>>

\* the browser notices that the tracks recorder r records have ended
tracksEnded(r) ==
    /\ recorders[r].state = "recording"
    /\ streams[recorders[r].stream] = "ended"
    /\ recorders' = stopped(recorders, r)
    /\ RecDone("tracksEnded", "ok", r)
    /\ UNCHANGED <<mediaRecorder, mediaStream, recordedChunks, streams, requests,
                   stopCalls, recDecoding, recSteps, engineVars, loopVars, segVars, restVars>>

\* mutant: stop() on an inactive recorder does not throw
stopRefusal_inactiveStops ==
    IF ~ctx THEN "throws:NotInitialized"
    ELSE IF mediaRecorder = 0 THEN "throws:NoRecording"
    ELSE "none"

\* how stopRecording fails, "none" when it stops the recorder
stopRefusal ==
    IF ~ctx THEN "throws:NotInitialized"
    ELSE IF mediaRecorder = 0 THEN "throws:NoRecording"
    ELSE IF recorders[mediaRecorder].state = "inactive" THEN "rejects:InvalidState"
    ELSE "none"

\* stopRecording up to the return of its promise: the executor sets onstop,
\* then calls stop()
stopRecording ==
    /\ RecCall
    /\ IF stopRefusal \in {"throws:NotInitialized", "throws:NoRecording"}
         THEN /\ UNCHANGED <<recorders, stopCalls>>
              /\ RecDone("stopRecording", stopRefusal, 0)
         ELSE LET r == mediaRecorder
                  p == Len(stopCalls) + 1
              IN IF stopRefusal = "rejects:InvalidState"
                   THEN /\ recorders' = [recorders EXCEPT ![r].onstop = p]
                        /\ stopCalls' = Append(stopCalls,
                               [rec |-> r, status |-> "rejected", buffer |-> <<>>,
                                whenIdle |-> ~isRecording])
                        /\ RecDone("stopRecording", stopRefusal, p)
                   ELSE /\ recorders' = [stopped(recorders, r) EXCEPT ![r].onstop = p]
                        /\ stopCalls' = Append(stopCalls,
                               [rec |-> r, status |-> "pending", buffer |-> <<>>,
                                whenIdle |-> ~isRecording])
                        /\ RecDone("stopRecording", "pending", p)
    /\ UNCHANGED <<mediaRecorder, mediaStream, recordedChunks, streams, requests,
                   recDecoding, engineVars, loopVars, segVars, restVars>>

\* the dataavailable event stop() queued is delivered
deliverData(r, size) ==
    /\ recorders[r].events # <<>>
    /\ Head(recorders[r].events) = "dataavailable"
    /\ recorders' = [recorders EXCEPT ![r].events = Tail(@)]
    /\ ondataavailable(r, size)
    /\ UNCHANGED <<mediaRecorder, mediaStream, streams, requests, stopCalls,
                   recDecoding, recSteps, engineVars, loopVars, segVars, restVars>>

\* the stop event is delivered: onstop, when set, stops the tracks of
\* this.mediaStream, makes the blob and suspends at its awaits
deliverStop(r) ==
    /\ recorders[r].events # <<>>
    /\ Head(recorders[r].events) = "stop"
    /\ recorders' = [recorders EXCEPT ![r].events = Tail(@)]
    /\ IF recorders[r].onstop = 0
         THEN /\ UNCHANGED <<streams, recDecoding>>
              /\ RecDone("stop", "unhandled", r)
         ELSE /\ streams' = tracksStopped
              /\ recDecoding' = recDecoding \cup
                     {[call |-> recorders[r].onstop, blob |-> recordedChunks]}
              /\ RecDone("stop", "decoding", r)
    /\ UNCHANGED <<mediaRecorder, mediaStream, recordedChunks, requests, stopCalls,
                   recSteps, engineVars, loopVars, segVars, restVars>>

\* resolve or reject of a promise: nothing when it is already settled
settled(calls, p, status, buffer) ==
    IF calls[p].status = "pending"
      THEN [calls EXCEPT ![p].status = status, ![p].buffer = buffer]
      ELSE calls

\* blob.arrayBuffer and decodeAudioData of an onstop handler have completed:
\* decoded, the handler cleans up and resolves; rejected, it only rejects.
\* An empty blob never decodes.
decodeSettled(d, decoded) ==
    /\ decoded => d.blob # <<>>
    /\ recDecoding' = recDecoding \ {d}
    /\ IF decoded
         THEN /\ cleanupRecording
              /\ stopCalls' = settled(stopCalls, d.call, "resolved", d.blob)
              /\ RecDone("stopSettled",
                         IF stopCalls[d.call].status = "pending" THEN "resolved" ELSE "ignored",
                         d.call)
         ELSE /\ UNCHANGED <<mediaRecorder, mediaStream, recordedChunks>>
              /\ stopCalls' = settled(stopCalls, d.call, "rejected", <<>>)
              /\ RecDone("stopSettled", "rejected", d.call)
    /\ UNCHANGED <<streams, recorders, requests, recSteps, engineVars, loopVars, segVars, restVars>>

cancelRecording ==
    /\ RecCall
    /\ recorders' =
          IF mediaRecorder = 0 THEN recorders
          ELSE [(IF recorders[mediaRecorder].state # "inactive"
                   THEN stopped(recorders, mediaRecorder) ELSE recorders)
                EXCEPT ![mediaRecorder].cancelled = TRUE]
    /\ streams' = tracksStopped
    /\ cleanupRecording
    /\ RecDone("cancelRecording", "ok", mediaRecorder)
    /\ UNCHANGED <<requests, stopCalls, recDecoding, engineVars, loopVars, segVars, restVars>>

Recorders == 1..Len(recorders)

NextRec ==
    \/ Initialize /\ UNCHANGED <<recVars, loopVars, segVars, restVars>>
    \/ startRecording
    \/ getUserMediaRejected
    \/ \E supported \in BOOLEAN : getUserMediaResolved(supported)
    \/ \E r \in Recorders : \E size \in ChunkSizes : timeslice(r, size)
    \/ \E r \in Recorders : tracksEnded(r)
    \/ stopRecording
    \/ \E r \in Recorders : \E size \in ChunkSizes : deliverData(r, size)
    \/ \E r \in Recorders : deliverStop(r)
    \/ \E d \in recDecoding : \E decoded \in BOOLEAN : decodeSettled(d, decoded)
    \/ cancelRecording

SpecRec == Init /\ [][NextRec]_vars

----------------------------------------------------------------------------
(* Properties of recording *)

LiveStreams == {st \in 1..Len(streams) : streams[st] = "live"}
NowRecording == {r \in Recorders : recorders[r].state = "recording"}
RecFailures == {"throws:NotInitialized", "throws:NoRecording", "rejects:InvalidState",
                "throws:DeviceError", "throws:NotSupported"}

\* C13: at most one capture is in progress: never two live streams or two
\* recorders buffering input, and a live stream is the one the engine holds,
\* also after startRecording is called while a recording is in progress.
C13_OneCapture ==
    /\ Cardinality(LiveStreams) <= 1
    /\ Cardinality(NowRecording) <= 1
    /\ \A st \in LiveStreams : st = mediaStream

\* C14: after stopRecording has resolved, after it has failed and after
\* cancelRecording, the engine is not recording, holds no chunk, and the
\* stream of that recording has been released.
C14_ExitLeavesIdle ==
    /\ recLast.op = "stopSettled" =>
          /\ ~isRecording
          /\ recordedChunks = <<>>
          /\ streams[recorders[stopCalls[recLast.subject].rec].stream] = "ended"
    /\ recLast.op = "cancelRecording" =>
          /\ ~isRecording
          /\ recordedChunks = <<>>
          /\ recLast.subject # 0 => streams[recorders[recLast.subject].stream] = "ended"

\* C15: when startRecording fails, whether getUserMedia was refused or the
\* recorder could not be constructed on the stream obtained, an idle engine
\* stays idle and the stream the call obtained is not left live.
C15_FailedStartReleases ==
    recLast.op \in {"startRecording", "startSettled"} /\ recLast.result \in RecFailures =>
        /\ recLast.idleBefore => ~isRecording
        /\ recLast.subject # 0 => streams[recLast.subject] # "live"

C17_CancelIsFinal ==
    /\ recLast.op = "stopSettled" /\ recLast.result \in {"resolved", "ignored"} =>
          ~recorders[stopCalls[recLast.subject].rec].cancelled
    /\ recLast.op = "dataavailable" /\ recLast.result = "pushed" =>
          ~recorders[recLast.subject].cancelled

----------------------------------------------------------------------------
(* The waveform editor's trim-bar redraw loop.  On a commit React runs the  *)
(* cleanups of the effects whose dependencies changed, then the bodies of   *)
(* those effects in the order they are declared; on unmount it runs the     *)
(* cleanups.  Every run of the interaction effect has its own               *)
(* animationFrameId.                                                        *)

\* selectedPadIndex values, and the pads among them that hold a buffer
EditorPads == {-1, 0, 1, 2}
WithBuffer == {0, 1}
\* onWaveformReady: 0 for undefined, else a function's identity
ReadyCallbacks == {0, 1, 2}
Props == [pad : EditorPads, visible : BOOLEAN, ready : ReadyCallbacks]

SetMax(S) == CHOOSE x \in S : \A y \in S : y <= x

\* the number of frames requested so far: requestAnimationFrame returns the next number
allocated ==
    SetMax({0} \cup {f.id : f \in frames} \cup {frameIds[g] : g \in DOMAIN frameIds})

\* cancelAnimationFrame(id)
cancelAnimationFrame(fs, id) == {f \in fs : f.id # id}

\* the cleanup of the interaction effect: if (animationFrameId) cancelAnimationFrame(animationFrameId)
cleanedUp(fs) ==
    IF cleanupGen # 0 /\ frameIds[cleanupGen] # 0
      THEN cancelAnimationFrame(fs, frameIds[cleanupGen])
      ELSE fs

\* a commit of the component with props p: the first one of an instance
\* mounts it with fresh refs
render(p) ==
    LET fresh == ~editor.mounted
        depsA == fresh \/ p.pad # editor.pad \/ p.visible # editor.visible
        depsB == depsA \/ p.ready # editor.ready
        \* the interaction effect returns early while the canvases are not rendered
        runsA == depsA /\ p.visible
        gen == Len(frameIds) + 1
        loopRef == IF runsA THEN gen ELSE IF fresh THEN 0 ELSE loopRefGen
        \* the init effect goes on only for a visible editor on a pad with a buffer
        runsB == depsB /\ p.visible /\ p.pad >= 0 /\ p.pad \in WithBuffer
        \* startAnimationLoopRef.current() requests a frame, unless it is the initial no-op
        starts == runsB /\ loopRef # 0
        id == allocated + 1
    IN /\ loopSteps < MaxRenders
       /\ depsB
       /\ starts => allocated < MaxFrames
       /\ loopSteps' = loopSteps + 1
       /\ editor' = [mounted |-> TRUE, pad |-> p.pad, visible |-> p.visible, ready |-> p.ready]
       /\ cleanupGen' = IF depsA THEN (IF runsA THEN gen ELSE 0) ELSE cleanupGen
       /\ loopRefGen' = loopRef
       /\ trimbarsDrawer' = (runsB \/ (~fresh /\ trimbarsDrawer))
       /\ frameIds' =
             LET ids == IF runsA THEN Append(frameIds, 0) ELSE frameIds
             IN IF starts THEN [ids EXCEPT ![loopRef] = id] ELSE ids
       /\ frames' =
             LET fs == IF depsA /\ ~fresh THEN cleanedUp(frames) ELSE frames
             IN IF starts THEN fs \cup {[id |-> id, gen |-> loopRef]} ELSE fs
       /\ loopLast' = [op |-> IF fresh THEN "mount" ELSE "update", gen |-> loopRef,
                       stale |-> FALSE]
       /\ UNCHANGED <<engineVars, recVars, segVars, restVars>>

unmount ==
    /\ editor.mounted
    /\ loopSteps < MaxRenders
    /\ loopSteps' = loopSteps + 1
    /\ editor' = [editor EXCEPT !.mounted = FALSE]
    /\ frames' = cleanedUp(frames)
    /\ cleanupGen' = 0
    /\ loopLast' = [op |-> "unmount", gen |-> cleanupGen, stale |-> FALSE]
    /\ UNCHANGED <<loopRefGen, frameIds, trimbarsDrawer, engineVars, recVars, segVars, restVars>>

\* the browser runs a requested frame: animate redraws the trim bars and
\* requests the next frame into its animationFrameId
animate(f) ==
    /\ allocated < MaxFrames
    /\ frames' = (frames \ {f}) \cup {[id |-> allocated + 1, gen |-> f.gen]}
    /\ frameIds' = [frameIds EXCEPT ![f.gen] = allocated + 1]
    /\ loopLast' = [op |-> "frame", gen |-> f.gen, stale |-> f.gen # cleanupGen]
    /\ UNCHANGED <<editor, cleanupGen, loopRefGen, trimbarsDrawer, loopSteps,
                   engineVars, recVars, segVars, restVars>>

NextLoop ==
    \/ \E p \in Props : render(p)
    \/ unmount
    \/ \E f \in frames : animate(f)

SpecLoop == Init /\ [][NextLoop]_vars

\* C18: the redraw loop is cancelled whenever the displayed pad changes or
\* the editor is torn down: at most one frame is requested at any time, it
\* belongs to the current run of the interaction effect, and no frame of an
\* earlier run fires.
C18_OneRedrawLoop ==
    /\ Cardinality(frames) <= 1
    /\ \A f \in frames : editor.mounted /\ f.gen = cleanupGen
    /\ loopLast.op = "frame" => ~loopLast.stale

----------------------------------------------------------------------------
(* detectSoundSegments.  Times are counted in ticks of 0.05 s, so that      *)
(* sample n of a buffer of 10 or 20 samples per second is at the whole tick *)
(* n / sampleRate seconds; amplitudes and thresholds are whole hundredths.  *)

TicksPerSecond == 20
SampleRates == {10, 20}
Samples == {0, 1, -3}
Thresholds == {0, 2}
\* minSilenceDuration and minSoundDuration, in ticks
Durations == {0, 1, 2}

Abs(x) == IF x < 0 THEN -x ELSE x

\* mutant: the sample index is taken for the time
seconds_sampleIndex(n, sampleRate) == n

\* n / sampleRate, in ticks
seconds(n, sampleRate) == n * (TicksPerSecond \div sampleRate)

\* n >= duration * sampleRate, the duration in ticks
AtLeast(n, duration, sampleRate) == n * TicksPerSecond >= duration * sampleRate

\* 3 s at 20 samples per second, loud during [0.5 s, 1.2 s] and [2.0 s, 2.8 s],
\* with threshold 0.02, minSilenceDuration 0.1 s and minSoundDuration 0.05 s
TwoBursts ==
    [data |-> [n \in 1..60 |->
                  IF (n - 1) \in (10..24) \cup (40..56) THEN -3 ELSE 0],
     sampleRate |-> 20,
     silenceThreshold |-> 2,
     minSilenceDuration |-> 2,
     minSoundDuration |-> 1]

SegInputs ==
    [data : UNION {[1..n -> Samples] : n \in 0..MaxSamples},
     sampleRate : SampleRates,
     silenceThreshold : Thresholds,
     minSilenceDuration : Durations,
     minSoundDuration : Durations]
    \cup {TwoBursts}

\* mutant: a region is emitted whatever its length
longEnough_always(segmentLength, input) == TRUE

\* segmentLength >= minSoundSamples
longEnough(segmentLength, input) ==
    AtLeast(segmentLength, input.minSoundDuration, input.sampleRate)

\* segments.push({ start: from / sampleRate, end: to / sampleRate }) when the
\* region is long enough
pushed(segs, from, to, segmentLength, input) ==
    IF longEnough(segmentLength, input)
      THEN Append(segs, [start |-> seconds(from, input.sampleRate),
                         end |-> seconds(to, input.sampleRate)])
      ELSE segs

\* the call, up to the for loop
detectSoundSegments(input) ==
    /\ segPc = "idle"
    /\ segInput' = input
    /\ segPc' = "scan"
    /\ segI' = 0
    /\ isInSound' = FALSE
    /\ soundStart' = 0
    /\ silenceStart' = 0
    /\ segments' = <<>>
    /\ UNCHANGED <<engineVars, recVars, loopVars, restVars>>

\* one iteration of the for loop, on data[i]
scanSample ==
    /\ segPc = "scan"
    /\ segI < Len(segInput.data)
    /\ LET amplitude == Abs(segInput.data[segI + 1])
       IN IF amplitude > segInput.silenceThreshold
            THEN /\ isInSound' = TRUE
                 /\ soundStart' = IF ~isInSound THEN segI ELSE soundStart
                 /\ silenceStart' = segI
                 /\ UNCHANGED segments
            ELSE IF isInSound /\ AtLeast(segI - silenceStart, segInput.minSilenceDuration,
                                         segInput.sampleRate)
              THEN /\ segments' = pushed(segments, soundStart, silenceStart,
                                         silenceStart - soundStart, segInput)
                   /\ isInSound' = FALSE
                   /\ UNCHANGED <<soundStart, silenceStart>>
              ELSE UNCHANGED <<isInSound, soundStart, silenceStart, segments>>
    /\ segI' = segI + 1
    /\ UNCHANGED <<segInput, segPc, engineVars, recVars, loopVars, restVars>>

\* mutant: the region still open ends at its last loud sample
returnSegments_endsAtLastLoud ==
    /\ segPc = "scan"
    /\ segI = Len(segInput.data)
    /\ segments' = IF isInSound
                     THEN pushed(segments, soundStart, silenceStart,
                                 silenceStart - soundStart, segInput)
                     ELSE segments
    /\ segPc' = "done"
    /\ UNCHANGED <<segInput, segI, isInSound, soundStart, silenceStart,
                   engineVars, recVars, loopVars, restVars>>

\* after the loop: the region still open is closed at the end of the data
returnSegments ==
    /\ segPc = "scan"
    /\ segI = Len(segInput.data)
    /\ segments' = IF isInSound
                     THEN pushed(segments, soundStart, Len(segInput.data),
                                 Len(segInput.data) - soundStart, segInput)
                     ELSE segments
    /\ segPc' = "done"
    /\ UNCHANGED <<segInput, segI, isInSound, soundStart, silenceStart,
                   engineVars, recVars, loopVars, restVars>>

NextSeg ==
    \/ segPc = "idle" /\ \E input \in SegInputs : detectSoundSegments(input)
    \/ scanSample
    \/ returnSegments

SpecSeg == Init /\ [][NextSeg]_vars

\* C19: the segments detectSoundSegments returns are strictly ordered and do
\* not overlap, and each lasts at least minSoundDuration.
C19_SegmentsOrdered ==
    /\ \A k \in 1..Len(segments) :
          segments[k].end - segments[k].start >= segInput.minSoundDuration
    /\ \A k \in 1..(Len(segments) - 1) :
          /\ segments[k].start < segments[k + 1].start
          /\ segments[k].end <= segments[k + 1].start

\* a run with a positive minimum has returned two segments and has dropped a
\* shorter region
C19_Witness ==
    /\ segPc = "done"
    /\ segInput.minSoundDuration > 0
    /\ Len(segments) >= 2
    /\ Abs(segInput.data[1]) > segInput.silenceThreshold
    /\ segments[1].start > 0

\* C20: every segment returned has 0 <= start < end <= the buffer's
\* duration, also with minSoundDuration = 0 and a region of a single loud
\* sample.
C20_SegmentsInsideBuffer ==
    \A k \in 1..Len(segments) :
        /\ 0 <= segments[k].start
        /\ segments[k].start < segments[k].end
        /\ segments[k].end <= seconds(Len(segInput.data), segInput.sampleRate)

----------------------------------------------------------------------------
(* The regions of a buffer, read off its samples *)

SegN == Len(segInput.data)
Loud(i) == i \in 0..(SegN - 1) /\ Abs(segInput.data[i + 1]) > segInput.silenceThreshold
\* the number of quiet samples that directly follow sample l
QuietAfter(l) ==
    Cardinality({j \in (l + 1)..(SegN - 1) : \A k \in (l + 1)..j : ~Loud(k)})
\* the loud samples followed by at least minSilenceDuration of quiet samples
RegionEnds ==
    {l \in 0..(SegN - 1) :
        /\ Loud(l)
        /\ QuietAfter(l) >= 1
        /\ QuietAfter(l) * TicksPerSecond >= segInput.minSilenceDuration * segInput.sampleRate}
SetMin(S) == CHOOSE x \in S : \A y \in S : x <= y
\* the first loud sample of the region that loud sample l belongs to
RegionFirst(l) ==
    SetMin({t \in 0..l : Loud(t) /\ \A e \in RegionEnds : e < t \/ e >= l})
LoudSamples == {i \in 0..(SegN - 1) : Loud(i)}
LastLoud == SetMax(LoudSamples)
\* the data ends inside a region
Trailing == LoudSamples # {} /\ LastLoud \notin RegionEnds
\* t ticks is the time of sample n
TimeOf(n, t) == n * TicksPerSecond = t * segInput.sampleRate
\* n samples last at least minSoundDuration
Lasting(n) == n * TicksPerSecond >= segInput.minSoundDuration * segInput.sampleRate
TailSegments == {k \in 1..Len(segments) : TimeOf(SegN, segments[k].end)}

\* C21: a region followed by at least minSilenceDuration of quiet samples
\* yields the segment from the time of its first loud sample to the time of
\* its last loud sample if that length is at least minSoundDuration, and no
\* segment otherwise; the segments that end before the end of the buffer are
\* exactly these.  Loud during [0.5 s, 1.2 s] and [2.0 s, 2.8 s] with
\* threshold 0.02, minSilenceDuration 0.1 s and minSoundDuration 0.05 s gives
\* exactly those two segments.
C21_ClosedRegions ==
    segPc = "done" =>
        /\ \A l \in RegionEnds :
              Lasting(l - RegionFirst(l)) <=>
                  \E k \in 1..Len(segments) :
                      TimeOf(RegionFirst(l), segments[k].start) /\ TimeOf(l, segments[k].end)
        /\ \A k \in (1..Len(segments)) \ TailSegments :
              \E l \in RegionEnds :
                  TimeOf(RegionFirst(l), segments[k].start) /\ TimeOf(l, segments[k].end)
        /\ segInput = TwoBursts =>
              segments = <<[start |-> 10, end |-> 24], [start |-> 40, end |-> 56]>>

\* a run at 10 samples per second has emitted one closed region and
\* discarded another for being too short
C21_Witness ==
    /\ segPc = "done"
    /\ segInput.sampleRate = 10
    /\ \E l \in RegionEnds : Lasting(l - RegionFirst(l)) /\ RegionFirst(l) > 0
    /\ \E l \in RegionEnds : ~Lasting(l - RegionFirst(l))

\* C22: when the data ends inside a region, exactly one more segment is
\* considered, from the region's first loud sample to the end of the buffer,
\* and it is returned, as the last segment, if and only if that length is at
\* least minSoundDuration; otherwise no segment ends at the end of the buffer.
C22_TrailingRegion ==
    segPc = "done" =>
        /\ Cardinality(TailSegments) <= 1
        /\ TailSegments # {} <=> Trailing /\ Lasting(SegN - RegionFirst(LastLoud))
        /\ \A k \in TailSegments :
              k = Len(segments) /\ TimeOf(RegionFirst(LastLoud), segments[k].start)

\* the data ended one quiet sample after the last loud one, with a longer
\* minimum silence, and the open region was returned after a closed one
C22_Witness ==
    /\ segPc = "done"
    /\ Trailing
    /\ LastLoud = SegN - 2
    /\ TailSegments # {}
    /\ Len(segments) >= 2


----------------------------------------------------------------------------
(* splitBuffer and extractBufferSegment.  Times are in ticks, as for
   detectSoundSegments; frames are numbered from 0 as in the source. *)

MaxBufferLength == 4
MaxSegments == 2
ChannelCounts == {1, 2}
SegmentTimes == {-1, 0, 2, 3, 9}

\* what a Float32Array holds after `undefined`, the value of a read outside
\* the source data, is stored into it; no frame of a source buffer has it
NaN == -1

\* an AudioBuffer of the given shape: frame k of channel c holds a value
\* that names c and k
sourceBuffer(numberOfChannels, length, sampleRate) ==
    [numberOfChannels |-> numberOfChannels,
     length |-> length,
     sampleRate |-> sampleRate,
     duration |-> (length * TicksPerSecond) \div sampleRate,
     channelData |-> [c \in 0..(numberOfChannels - 1) |->
                         [k \in 0..(length - 1) |-> 10 * (c + 1) + k]]]

SourceBuffers ==
    {sourceBuffer(c, n, r) : c \in ChannelCounts, n \in 0..MaxBufferLength, r \in SampleRates}

SegmentLists ==
    UNION {[1..n -> [start : SegmentTimes, end : SegmentTimes]] : n \in 0..MaxSegments}

\* Math.floor(time * sampleRate), time in ticks
floorSample(time, sampleRate) == (time * sampleRate) \div TicksPerSecond

\* sourceData[n]
frameAt(sourceData, n) == IF n \in DOMAIN sourceData THEN sourceData[n] ELSE NaN

\* mutant: the copy starts at the first frame of the source
extractBufferSegment_fromZero(buffer, segment) ==
    LET startSample == floorSample(segment.start, buffer.sampleRate)
        endSample == floorSample(segment.end, buffer.sampleRate)
        length == endSample - startSample
    IN  IF length <= 0
          THEN NullBuffer
          ELSE [numberOfChannels |-> buffer.numberOfChannels,
                length |-> length,
                sampleRate |-> buffer.sampleRate,
                duration |-> (length * TicksPerSecond) \div buffer.sampleRate,
                channelData |-> [c \in 0..(buffer.numberOfChannels - 1) |->
                                    [i \in 0..(length - 1) |->
                                        frameAt(buffer.channelData[c], i)]]]

extractBufferSegment(buffer, segment) ==
    LET startSample == floorSample(segment.start, buffer.sampleRate)
        endSample == floorSample(segment.end, buffer.sampleRate)
        length == endSample - startSample
    IN  IF length <= 0
          THEN NullBuffer
          ELSE [numberOfChannels |-> buffer.numberOfChannels,
                length |-> length,
                sampleRate |-> buffer.sampleRate,
                duration |-> (length * TicksPerSecond) \div buffer.sampleRate,
                channelData |-> [c \in 0..(buffer.numberOfChannels - 1) |->
                                    [i \in 0..(length - 1) |->
                                        frameAt(buffer.channelData[c], startSample + i)]]]

\* segments.map(extractBufferSegment).filter(buf => buf !== null)
splitBuffers(buffer, segs) ==
    SelectSeq([j \in 1..Len(segs) |-> extractBufferSegment(buffer, segs[j])],
              LAMBDA buf : buf # NullBuffer)

\* splitBuffer: ensureInitialized, then the map and the filter
splitBuffer(buffer, segs) ==
    /\ splitInput' = [called |-> TRUE, initialized |-> ctx,
                      buffer |-> buffer, segments |-> segs]
    /\ splitResult' =
          IF ~ctx
            THEN [threw |-> TRUE, buffers |-> <<>>]
            ELSE [threw |-> FALSE, buffers |-> splitBuffers(buffer, segs)]
    /\ UNCHANGED <<engineVars, recVars, loopVars, segVars, barVars, wavVars, gridVars, guiVars>>

NextSplit ==
    \/ Initialize /\ UNCHANGED <<recVars, loopVars, segVars, restVars>>
    \/ /\ ~splitInput.called
       /\ \E buffer \in SourceBuffers : \E segs \in SegmentLists : splitBuffer(buffer, segs)

SpecSplit == Init /\ [][NextSplit]_vars

\* the segments of the call whose sample length is positive, in order
KeptSegments ==
    SelectSeq(splitInput.segments,
              LAMBDA seg : floorSample(seg.end, splitInput.buffer.sampleRate)
                             > floorSample(seg.start, splitInput.buffer.sampleRate))

\* C23: a splitBuffer call on an initialized engine returns one buffer per
\* segment of positive sample length, in the segments' order; the buffer of
\* a kept segment has the source's channel count and sample rate, a frame
\* count less than one sample away from (end - start) * sampleRate, and on
\* every channel its frame k is the source's frame floor(start * sampleRate) + k
\* wherever the source has that frame.
C23_SplitCopiesSegments ==
    (splitInput.called /\ splitInput.initialized) =>
        LET source == splitInput.buffer
            out == splitResult.buffers
        IN  /\ ~splitResult.threw
            /\ Len(out) = Len(KeptSegments)
            /\ \A j \in 1..Len(out) :
                  LET seg == KeptSegments[j]
                      first == floorSample(seg.start, source.sampleRate)
                  IN  /\ out[j].numberOfChannels = source.numberOfChannels
                      /\ out[j].sampleRate = source.sampleRate
                      /\ Abs(out[j].length * TicksPerSecond
                               - (seg.end - seg.start) * source.sampleRate) < TicksPerSecond
                      /\ DOMAIN out[j].channelData = 0..(source.numberOfChannels - 1)
                      /\ \A c \in 0..(source.numberOfChannels - 1) :
                            /\ DOMAIN out[j].channelData[c] = 0..(out[j].length - 1)
                            /\ \A k \in 0..(out[j].length - 1) :
                                  (first + k) \in 0..(source.length - 1) =>
                                      out[j].channelData[c][k] = source.channelData[c][first + k]

\* a two-channel buffer split by an empty segment and by one that starts
\* between two samples, after the first frame: one buffer comes back
C23_Witness ==
    /\ splitInput.called
    /\ splitInput.initialized
    /\ splitInput.buffer.numberOfChannels = 2
    /\ splitInput.buffer.sampleRate = 10
    /\ splitInput.buffer.length = 4
    /\ splitInput.segments = <<[start |-> 2, end |-> 2], [start |-> 3, end |-> 9]>>
    /\ Len(splitResult.buffers) = 1
    /\ splitResult.buffers[1].length = 3
    /\ splitResult.buffers[1].channelData[1][0] = 21


----------------------------------------------------------------------------
(* TrimbarsDrawer: the two trim bars over the waveform, in canvas pixels,
   and the pointer events SamplerGUI and the waveform editor send it. *)

CanvasWidth == 900
HitRadius == 25
HandleY == 18
TrimBarXs == {100, 800}
MouseXs == {-50, 0, 100, 430, 450, 470, 800, 900, 950}
MouseYs == {18, 100}
MousePositions == [x : MouseXs, y : MouseYs]

\* distance(mousePos.x, mousePos.y, bar.x, 18) < 25, on the squares
close(mousePos, bar) ==
    (mousePos.x - bar.x) * (mousePos.x - bar.x)
      + (mousePos.y - HandleY) * (mousePos.y - HandleY) < HitRadius * HitRadius

\* mutant: the left bar is tested without looking at the right one
highlighted_leftFirst(left, right, mousePos) ==
    LET l1 == [left EXCEPT !.selected = close(mousePos, left)]
        r1 == [right EXCEPT !.selected = close(mousePos, right) /\ ~l1.selected]
    IN  <<l1, r1>>

\* the bars after highLightTrimBarsWhenClose(mousePos)
highlighted(left, right, mousePos) ==
    LET l1 == [left EXCEPT !.selected = close(mousePos, left) /\ ~right.selected]
        r1 == [right EXCEPT !.selected = close(mousePos, right) /\ ~l1.selected]
    IN  <<l1, r1>>

\* the bars after startDrag()
startDragged(left, right) ==
    <<[left EXCEPT !.dragged = left.dragged \/ left.selected],
      [right EXCEPT !.dragged = right.dragged \/ right.selected]>>

\* mutant: the bars are left where they are
stopDragged_noSnap(left, right) ==
    LET l1 == IF left.dragged
                THEN [x |-> left.x, selected |-> FALSE, dragged |-> FALSE]
                ELSE left
        r1 == IF right.dragged
                THEN [x |-> right.x, selected |-> FALSE, dragged |-> FALSE]
                ELSE right
    IN  <<l1, r1>>

\* the bars after stopDrag()
stopDragged(left, right) ==
    LET l1 == IF left.dragged
                THEN [x |-> IF left.x > right.x THEN right.x ELSE left.x,
                      selected |-> FALSE, dragged |-> FALSE]
                ELSE left
        r1 == IF right.dragged
                THEN [x |-> IF right.x < l1.x THEN l1.x ELSE right.x,
                      selected |-> FALSE, dragged |-> FALSE]
                ELSE right
    IN  <<l1, r1>>

\* mutant: the pointer's x is used as it is
clampedX_unclamped(mousePos, width) == mousePos.x

\* Math.max(0, Math.min(mousePos.x, this.canvas.width))
clampedX(mousePos, width) == Max(0, Min(mousePos.x, width))

\* mutant: a move that would cross puts the bar on the other bar
moved_ontoOther(left, right, mousePos, width) ==
    LET h == highlighted(left, right, mousePos)
        x == clampedX(mousePos, width)
        l1 == IF h[1].dragged
                THEN [h[1] EXCEPT !.x = IF x < h[2].x THEN x ELSE h[2].x]
                ELSE h[1]
        r1 == IF h[2].dragged
                THEN [h[2] EXCEPT !.x = IF x > l1.x THEN x ELSE l1.x]
                ELSE h[2]
    IN  <<l1, r1>>

\* the bars after moveTrimBars(mousePos)
moved(left, right, mousePos, width) ==
    LET h == highlighted(left, right, mousePos)
        x == clampedX(mousePos, width)
        l1 == IF h[1].dragged /\ x < h[2].x THEN [h[1] EXCEPT !.x = x] ELSE h[1]
        r1 == IF h[2].dragged /\ x > l1.x THEN [h[2] EXCEPT !.x = x] ELSE h[2]
    IN  <<l1, r1>>

BarsAre(bars) ==
    /\ leftTrimBar' = bars[1]
    /\ rightTrimBar' = bars[2]

BarsDone(op, mousePos) ==
    /\ barsLast' = [op |-> op, mousePos |-> mousePos,
                    left |-> leftTrimBar, right |-> rightTrimBar]
    /\ UNCHANGED <<barsStart, engineVars, recVars, loopVars, segVars, splitVars, wavVars, gridVars, guiVars>>

highLightTrimBarsWhenClose(mousePos) ==
    /\ BarsAre(highlighted(leftTrimBar, rightTrimBar, mousePos))
    /\ BarsDone("highLightTrimBarsWhenClose", mousePos)

startDrag ==
    /\ BarsAre(startDragged(leftTrimBar, rightTrimBar))
    /\ BarsDone("startDrag", barsLast.mousePos)

stopDrag ==
    /\ BarsAre(stopDragged(leftTrimBar, rightTrimBar))
    /\ BarsDone("stopDrag", barsLast.mousePos)

moveTrimBars(mousePos) ==
    /\ BarsAre(moved(leftTrimBar, rightTrimBar, mousePos, CanvasWidth))
    /\ BarsDone("moveTrimBars", mousePos)

\* the waveform editor's mousedown: the hit test, then startDrag
handleMouseDown(mousePos) ==
    /\ LET h == highlighted(leftTrimBar, rightTrimBar, mousePos)
       IN  BarsAre(startDragged(h[1], h[2]))
    /\ BarsDone("handleMouseDown", mousePos)

\* a drawer constructed with any two of the positions
InitTrimBars ==
    /\ \E l \in TrimBarXs : \E r \in TrimBarXs : TrimbarsDrawer(l, r)
    /\ InitRec
    /\ InitLoop
    /\ InitSeg
    /\ InitSplit
    /\ InitWav
    /\ InitGrid
    /\ InitGui
    /\ ctx = FALSE
    /\ masterGain = FALSE
    /\ pads = <<>>
    /\ decoding = {}
    /\ fetching = {}
    /\ started = <<>>
    /\ last = [op |-> "new", args |-> <<>>, result |-> "ok",
               before |-> <<>>, startedBefore |-> <<>>]
    /\ steps = 0

NextTrimBars ==
    \/ \E mousePos \in MousePositions : highLightTrimBarsWhenClose(mousePos)
    \/ startDrag
    \/ stopDrag
    \/ \E mousePos \in MousePositions : moveTrimBars(mousePos)
    \/ \E mousePos \in MousePositions : handleMouseDown(mousePos)

SpecTrimBars == InitTrimBars /\ [][NextTrimBars]_vars


----------------------------------------------------------------------------
(* Properties of the trim bars.  barsLast holds the bars as they were
   before the last call. *)

\* the pointer's x of the last call, clamped to the canvas
PointerX == Clamp(barsLast.mousePos.x, 0, CanvasWidth)

HitTests == {"highLightTrimBarsWhenClose", "moveTrimBars", "handleMouseDown"}

\* C24: when moveTrimBars is called while a bar is dragged and the pointer
\* is at or beyond the other bar's position, the other bar stays where it
\* was; and after a stopDrag that ended a drag, left <= right.
C24_NoCross ==
    /\ barsLast.op = "moveTrimBars" =>
          /\ (barsLast.left.dragged /\ PointerX >= barsLast.right.x) =>
                 rightTrimBar.x = barsLast.right.x
          /\ (barsLast.right.dragged /\ PointerX <= barsLast.left.x) =>
                 leftTrimBar.x = barsLast.left.x
    /\ (barsLast.op = "stopDrag" /\ (barsLast.left.dragged \/ barsLast.right.dragged)) =>
          leftTrimBar.x <= rightTrimBar.x

\* C25: at most one bar is ever selected; after a hit test with both bars
\* within the radius of the pointer, a bar that was selected before is the
\* one selected, and if neither was, exactly one is.
C25_HitTestExclusive ==
    /\ ~(leftTrimBar.selected /\ rightTrimBar.selected)
    /\ (/\ barsLast.op \in HitTests
        /\ close(barsLast.mousePos, barsLast.left)
        /\ close(barsLast.mousePos, barsLast.right)) =>
          /\ barsLast.left.selected => (leftTrimBar.selected /\ ~rightTrimBar.selected)
          /\ barsLast.right.selected => (rightTrimBar.selected /\ ~leftTrimBar.selected)
          /\ leftTrimBar.selected \/ rightTrimBar.selected

\* the pointer is between two bars 40 pixels apart, the right one was
\* selected by the test before, and it stays the selected one
C25_Witness ==
    /\ barsLast.op = "highLightTrimBarsWhenClose"
    /\ barsLast.left.x < barsLast.mousePos.x
    /\ barsLast.mousePos.x < barsLast.right.x
    /\ close(barsLast.mousePos, barsLast.left)
    /\ close(barsLast.mousePos, barsLast.right)
    /\ barsLast.right.selected
    /\ rightTrimBar.selected
    /\ ~leftTrimBar.selected

\* C26 as stated, a move onto the other bar's position counting as one that
\* does not cross: after moveTrimBars a dragged left bar is at the clamped
\* pointer x if that is not beyond the right bar and where it was
\* otherwise, a dragged right bar likewise against the left bar, and a bar
\* that is not dragged has not moved.
C26_MoveUnlessBeyond ==
    barsLast.op = "moveTrimBars" =>
        /\ leftTrimBar.x = IF barsLast.left.dragged /\ PointerX <= barsLast.right.x
                             THEN PointerX ELSE barsLast.left.x
        /\ rightTrimBar.x = IF barsLast.right.dragged /\ PointerX >= leftTrimBar.x
                              THEN PointerX ELSE barsLast.right.x

\* C26, amended: after moveTrimBars a dragged left bar is at the clamped
\* pointer x if that is strictly left of the right bar and where it was
\* otherwise; then a dragged right bar is at the clamped pointer x if that
\* is strictly right of the left bar and where it was otherwise; a bar that
\* is not dragged has not moved.  A rejected move never puts a bar on the
\* other bar's position.
C26_MoveOnlyOnOwnSide ==
    barsLast.op = "moveTrimBars" =>
        /\ leftTrimBar.x = IF barsLast.left.dragged /\ PointerX < barsLast.right.x
                             THEN PointerX ELSE barsLast.left.x
        /\ rightTrimBar.x = IF barsLast.right.dragged /\ PointerX > leftTrimBar.x
                              THEN PointerX ELSE barsLast.right.x

\* the left bar alone is dragged and the pointer is exactly on the right
\* bar, away from where the left bar is: the left bar has not moved
C26_Witness ==
    /\ barsLast.op = "moveTrimBars"
    /\ barsLast.left.dragged
    /\ ~barsLast.right.dragged
    /\ PointerX = barsLast.right.x
    /\ barsLast.left.x < barsLast.right.x
    /\ leftTrimBar.x = barsLast.left.x
    /\ rightTrimBar.x = barsLast.right.x

\* C27: a drawer constructed with 0 <= left <= right <= canvas width has
\* 0 <= left <= right <= canvas width in every state, whatever the bars'
\* flags.
C27_BarsInBounds ==
    (0 <= barsStart.left /\ barsStart.left <= barsStart.right
       /\ barsStart.right <= CanvasWidth) =>
        /\ 0 <= leftTrimBar.x
        /\ leftTrimBar.x <= rightTrimBar.x
        /\ rightTrimBar.x <= CanvasWidth

\* in the middle of a drag of the right bar the pointer has left the canvas
\* on the right, and the bar is on the canvas's edge
C27_Witness ==
    /\ barsStart = [left |-> 100, right |-> 800]
    /\ barsLast.op = "moveTrimBars"
    /\ barsLast.mousePos.x > CanvasWidth
    /\ rightTrimBar.dragged
    /\ ~leftTrimBar.dragged
    /\ barsLast.right.x < CanvasWidth
    /\ rightTrimBar.x = CanvasWidth

FlagsOf(bar) == <<bar.selected, bar.dragged>>

\* C28: after stopDrag a bar that was dragged is neither dragged nor
\* selected and a bar that was not has the flags and the position it had;
\* if a bar was dragged and left > right held, the dragged bar (the left
\* one if both were) is on the other bar's position and left <= right;
\* a second stopDrag would change nothing.
C28_StopDrag ==
    barsLast.op = "stopDrag" =>
        /\ barsLast.left.dragged => FlagsOf(leftTrimBar) = <<FALSE, FALSE>>
        /\ barsLast.right.dragged => FlagsOf(rightTrimBar) = <<FALSE, FALSE>>
        /\ ~barsLast.left.dragged => leftTrimBar = barsLast.left
        /\ ~barsLast.right.dragged => rightTrimBar = barsLast.right
        /\ (barsLast.left.x > barsLast.right.x
              /\ (barsLast.left.dragged \/ barsLast.right.dragged)) =>
              /\ leftTrimBar.x <= rightTrimBar.x
              /\ IF barsLast.left.dragged
                   THEN leftTrimBar.x = barsLast.right.x /\ rightTrimBar.x = barsLast.right.x
                   ELSE rightTrimBar.x = barsLast.left.x /\ leftTrimBar.x = barsLast.left.x
        /\ stopDragged(leftTrimBar, rightTrimBar) = <<leftTrimBar, rightTrimBar>>

\* the drawer was constructed with the bars inverted, the left bar was
\* dragged, and stopDrag has put it on the right bar
C28_Witness ==
    /\ barsLast.op = "stopDrag"
    /\ barsLast.left.dragged
    /\ barsLast.left.selected
    /\ barsLast.left.x > barsLast.right.x
    /\ leftTrimBar = newTrimBar(barsLast.right.x)
    /\ rightTrimBar = barsLast.right


----------------------------------------------------------------------------
(* PresetService.audioBufferToWav.  wavBuffer is the ArrayBuffer as a
   sequence of bytes, byte 0 first; samples are whole multiples of full
   scale. *)

MaxWavFrames == 2
WavRates == {8000, 44100}
WavSamples == {-2, 0, 1}

WavBuffers ==
    UNION {{[numberOfChannels |-> c, length |-> n, sampleRate |-> r, channelData |-> d] :
               d \in [0..(c - 1) -> [0..(n - 1) -> WavSamples]]} :
           c \in ChannelCounts, n \in 0..MaxWavFrames, r \in WavRates}

\* one channel of 1000 silent frames at 44100 Hz
ThousandFrames ==
    [numberOfChannels |-> 1, length |-> 1000, sampleRate |-> 44100,
     channelData |-> [c \in {0} |-> [k \in 0..999 |-> 0]]]

\* new ArrayBuffer(size)
ArrayBuffer(size) == [k \in 1..size |-> 0]

\* mutant: the most significant byte comes first
setUint_bigEndian(view, byteOffset, value, size) ==
    [k \in 1..Len(view) |->
        IF (k - 1) \in byteOffset..(byteOffset + size - 1)
          THEN (value \div (256 ^ (byteOffset + size - k))) % 256
          ELSE view[k]]

\* view.setUint16 / view.setUint32 / view.setInt16 (byteOffset, value, true):
\* the low `size` bytes of the value, the least significant first
setUint(view, byteOffset, value, size) ==
    [k \in 1..Len(view) |->
        IF (k - 1) \in byteOffset..(byteOffset + size - 1)
          THEN (value \div (256 ^ (k - 1 - byteOffset))) % 256
          ELSE view[k]]

\* writeString(offset, str), str given by its character codes
writeString(view, offset, str) ==
    [k \in 1..Len(view) |->
        IF (k - 1) \in offset..(offset + Len(str) - 1) THEN str[k - offset] ELSE view[k]]

RIFF == <<82, 73, 70, 70>>
WAVE == <<87, 65, 86, 69>>
fmt == <<102, 109, 116, 32>>
data == <<100, 97, 116, 97>>

\* the header writes, in the source's order
wavHeader(view, numChannels, sampleRate, format, bitDepth, length) ==
    LET v1 == writeString(view, 0, RIFF)
        v2 == setUint(v1, 4, 36 + length, 4)
        v3 == writeString(v2, 8, WAVE)
        v4 == writeString(v3, 12, fmt)
        v5 == setUint(v4, 16, 16, 4)
        v6 == setUint(v5, 20, format, 2)
        v7 == setUint(v6, 22, numChannels, 2)
        v8 == setUint(v7, 24, sampleRate, 4)
        v9 == setUint(v8, 28, sampleRate * numChannels * (bitDepth \div 8), 4)
        v10 == setUint(v9, 32, numChannels * (bitDepth \div 8), 2)
        v11 == setUint(v10, 34, bitDepth, 2)
        v12 == writeString(v11, 36, data)
    IN  setUint(v12, 40, length, 4)

\* audioBufferToWav up to the loop over the frames
audioBufferToWav(buffer) ==
    LET numChannels == buffer.numberOfChannels
        sampleRate == buffer.sampleRate
        format == 1
        bitDepth == 16
        length == buffer.length * numChannels * (bitDepth \div 8)
    IN  /\ wavInput' = buffer
        /\ wavBuffer' = wavHeader(ArrayBuffer(44 + length), numChannels, sampleRate,
                                  format, bitDepth, length)
        /\ wavI' = 0
        /\ wavPc' = "samples"
        /\ UNCHANGED <<engineVars, recVars, loopVars, segVars, splitVars, barVars, gridVars, guiVars>>

\* Math.max(-1, Math.min(1, x)), then the scaling to 16 bits
intSample(x) ==
    LET sample == Max(-1, Min(1, x))
    IN  IF sample < 0 THEN sample * 32768 ELSE sample * 32767

RECURSIVE writeChannels(_, _, _, _)
\* the inner loop: the samples of frame i from channel ch on
writeChannels(view, buffer, i, ch) ==
    IF ch >= buffer.numberOfChannels
      THEN view
      ELSE writeChannels(setUint(view, 44 + 2 * (i * buffer.numberOfChannels + ch),
                                 intSample(buffer.channelData[ch][i]), 2),
                         buffer, i, ch + 1)

\* one turn of the loop over the frames
writeFrame ==
    /\ wavPc = "samples"
    /\ wavI < wavInput.length
    /\ wavBuffer' = writeChannels(wavBuffer, wavInput, wavI, 0)
    /\ wavI' = wavI + 1
    /\ UNCHANGED <<wavInput, wavPc, engineVars, recVars, loopVars, segVars,
                   splitVars, barVars, gridVars, guiVars>>

\* the loop is over: the Blob is returned
returnBlob ==
    /\ wavPc = "samples"
    /\ wavI >= wavInput.length
    /\ wavPc' = "done"
    /\ UNCHANGED <<wavInput, wavI, wavBuffer, engineVars, recVars, loopVars, segVars,
                   splitVars, barVars, gridVars, guiVars>>

NextWav ==
    \/ wavPc = "idle" /\ \E buffer \in WavBuffers \cup {ThousandFrames} : audioBufferToWav(buffer)
    \/ writeFrame
    \/ returnBlob

SpecWav == Init /\ [][NextWav]_vars

\* the unsigned number in `size` bytes from byteOffset on, least significant first
ReadUint(byteOffset, size) ==
    LET RECURSIVE sum(_)
        sum(k) == IF k = size THEN 0
                  ELSE wavBuffer[byteOffset + k + 1] * (256 ^ k) + sum(k + 1)
    IN  sum(0)

\* C29: once the header is written the buffer has 44 + 2*N*C bytes, and
\* read as little-endian fields its bytes 4-7 are 36 + 2*N*C, bytes 40-43
\* 2*N*C, bytes 28-31 2*R*C, bytes 32-33 2*C, bytes 34-35 16 and bytes
\* 20-21 1; for N = 1000, R = 44100, C = 1 these are 2036, 2000, 88200 and 2.
C29_WavHeader ==
    wavPc # "idle" =>
        LET N == wavInput.length
            C == wavInput.numberOfChannels
            R == wavInput.sampleRate
        IN  /\ Len(wavBuffer) = 44 + 2 * N * C
            /\ ReadUint(4, 4) = 36 + 2 * N * C
            /\ ReadUint(40, 4) = 2 * N * C
            /\ ReadUint(28, 4) = 2 * R * C
            /\ ReadUint(32, 2) = 2 * C
            /\ ReadUint(34, 2) = 16
            /\ ReadUint(20, 2) = 1
            /\ (N = 1000 /\ R = 44100 /\ C = 1) =>
                  /\ ReadUint(4, 4) = 2036
                  /\ ReadUint(40, 4) = 2000
                  /\ ReadUint(28, 4) = 88200
                  /\ ReadUint(32, 2) = 2

\* the buffer of 1000 frames has been encoded to the end
C29_Witness ==
    /\ wavPc = "done"
    /\ wavInput = ThousandFrames
    /\ wavI = 1000
    /\ Len(wavBuffer) = 2044
    /\ ReadUint(4, 4) = 2036


----------------------------------------------------------------------------
(* The recording panel of PadsGrid: the recorded buffer, its detected
   segments, and splitAndAssignToPads.  The segments analyzeRecording
   stores are any list of the bounded set, not only those
   detectSoundSegments finds in the buffer. *)

MaxPanelOps == 3
GridPads == {0, 3}
GridSegmentTimes == {0, 3}
GridSegmentLists ==
    UNION {[1..n -> [start : GridSegmentTimes, end : GridSegmentTimes]] : n \in 0..MaxSegments}
GridBuffers == {sourceBuffer(1, MaxBufferLength, 20), sourceBuffer(2, MaxBufferLength, 10)}

\* a recording of 18 frames in which each of the first 17 is a segment
LongRecording == sourceBuffer(1, 18, 20)
SeventeenSegments == [k \in 1..17 |-> [start |-> k - 1, end |-> k]]

Recordings ==
    (GridBuffers \X GridSegmentLists) \cup {<<LongRecording, SeventeenSegments>>}

\* what splitAndAssignToPads found and returned; for the other calls only
\* their name is kept
GridDone(op, buffer, segs, out, before) ==
    gridLast' = [op |-> op, buffer |-> buffer, segments |-> segs,
                 splitBuffers |-> out, before |-> before]

GridCall == gridSteps < MaxPanelOps /\ gridSteps' = gridSteps + 1

\* PadsGrid.stopRecording once the engine's stopRecording has resolved with
\* the buffer; with autoSplitEnabled it goes on to analyzeRecording
gridStopRecording(buffer, autoSplitEnabled, segs) ==
    /\ GridCall
    /\ ctx
    /\ recordedBuffer' = buffer
    /\ detectedSegments' = IF autoSplitEnabled THEN segs ELSE detectedSegments
    /\ GridDone("stopRecording", NullBuffer, <<>>, <<>>, <<>>)
    /\ UNCHANGED <<engineVars, recVars, loopVars, segVars, splitVars, barVars, wavVars, guiVars>>

\* analyzeRecording, detectSoundSegments returning segs
analyzeRecording(segs) ==
    /\ GridCall
    /\ detectedSegments' = IF recordedBuffer = NullBuffer THEN detectedSegments ELSE segs
    /\ GridDone("analyzeRecording", NullBuffer, <<>>, <<>>, <<>>)
    /\ UNCHANGED <<recordedBuffer, engineVars, recVars, loopVars, segVars,
                   splitVars, barVars, wavVars, guiVars>>

\* Math.min(splitBuffers.length, 16)
maxPadsOf(out) == Min(Len(out), 16)

\* mutant: every pad gets the first buffer
assignedPad_firstBuffer(pad, out, i) ==
    loadedPad(pad, out[1], "Rec " \o ToString(i + 1))

\* the pad after loadBuffer(i, splitBuffers[i], `Rec ${i + 1}`)
assignedPad(pad, out, i) ==
    loadedPad(pad, out[i + 1], "Rec " \o ToString(i + 1))

RECURSIVE assigned(_, _, _, _)
\* the pads after the turns i, i + 1, ... of the loop
assigned(ps, out, i, maxPads) ==
    IF i >= maxPads
      THEN ps
      ELSE assigned([ps EXCEPT ![i] = assignedPad(@, out, i)], out, i + 1, maxPads)

splitAndAssignToPads ==
    /\ GridCall
    /\ IF recordedBuffer = NullBuffer \/ Len(detectedSegments) = 0
         THEN /\ GridDone("splitAndAssignToPads", recordedBuffer, detectedSegments, <<>>, pads)
              /\ UNCHANGED <<recordedBuffer, detectedSegments, engineVars, recVars, loopVars,
                             segVars, splitVars, barVars, wavVars, guiVars>>
         ELSE LET out == splitBuffers(recordedBuffer, detectedSegments)
                  maxPads == maxPadsOf(out)
              IN  /\ ctx
                  /\ pads' = assigned(pads, out, 0, maxPads)
                  /\ last' = IF maxPads = 0
                               THEN last
                               ELSE [op |-> "loadBuffer",
                                     args |-> <<maxPads - 1, out[maxPads],
                                                "Rec " \o ToString(maxPads)>>,
                                     result |-> "ok",
                                     before |-> assigned(pads, out, 0, maxPads - 1),
                                     startedBefore |-> started]
                  /\ recordedBuffer' = NullBuffer
                  /\ detectedSegments' = <<>>
                  /\ GridDone("splitAndAssignToPads", recordedBuffer, detectedSegments, out, pads)
                  /\ UNCHANGED <<ctx, masterGain, decoding, fetching, started, steps,
                                 recVars, loopVars, segVars, splitVars, barVars, wavVars, guiVars>>

\* a call on the engine from elsewhere in the component
EngineCalled ==
    /\ GridDone("engine", NullBuffer, <<>>, <<>>, <<>>)
    /\ UNCHANGED <<recordedBuffer, detectedSegments, gridSteps, recVars, loopVars, segVars,
                   splitVars, barVars, wavVars, guiVars>>

NextGrid ==
    \/ Initialize /\ EngineCalled
    \/ \E i \in GridPads : loadBuffer(i, BufB, "kick") /\ EngineCalled
    \/ \E i \in GridPads : setTrimPoints(i, 1, 2) /\ EngineCalled
    \/ \E r \in Recordings : gridStopRecording(r[1], TRUE, r[2])
    \/ \E buffer \in GridBuffers : gridStopRecording(buffer, FALSE, <<>>)
    \/ \E segs \in GridSegmentLists : analyzeRecording(segs)
    \/ splitAndAssignToPads

SpecGrid == Init /\ [][NextGrid]_vars

\* C30: after splitAndAssignToPads, if there was no recorded buffer or no
\* segment the pads are as before; otherwise, with n buffers returned by
\* splitBuffer, each pad i < min(n, 16) is loaded with the i-th of them,
\* trimmed from 0 to that buffer's duration, and every pad from min(n, 16)
\* on is as before.
C30_SplitBuffersFillFirstPads ==
    gridLast.op = "splitAndAssignToPads" =>
        IF gridLast.buffer = NullBuffer \/ gridLast.segments = <<>>
          THEN pads = gridLast.before
          ELSE LET out == gridLast.splitBuffers
                   m == IF Len(out) < MAX_PADS THEN Len(out) ELSE MAX_PADS
               IN  /\ out = splitBuffers(gridLast.buffer, gridLast.segments)
                   /\ DOMAIN pads = DOMAIN gridLast.before
                   /\ \A i \in DOMAIN pads :
                         IF i < m
                           THEN /\ pads[i].loaded
                                /\ pads[i].buffer = out[i + 1]
                                /\ pads[i].trimStart = 0
                                /\ pads[i].trimEnd = out[i + 1].duration
                           ELSE pads[i] = gridLast.before[i]

\* seventeen buffers came back: the sixteen pads hold the first sixteen
C30_Witness ==
    /\ gridLast.op = "splitAndAssignToPads"
    /\ Len(gridLast.splitBuffers) = 17
    /\ \A i \in 0..15 : pads[i].loaded /\ pads[i].buffer = gridLast.splitBuffers[i + 1]
    /\ pads[15].buffer.channelData[0][0] = 25

\* two segments of which one is empty, over a pad 0 that was loaded and
\* trimmed and a loaded pad 3: pad 0 holds the one buffer, pad 3 is as it was
C30_WitnessOver ==
    /\ gridLast.op = "splitAndAssignToPads"
    /\ Len(gridLast.segments) = 2
    /\ Len(gridLast.splitBuffers) = 1
    /\ gridLast.before[0].loaded
    /\ gridLast.before[0].trimStart = 1
    /\ gridLast.before[3].loaded
    /\ pads[0].buffer = gridLast.splitBuffers[1]
    /\ pads[3] = gridLast.before[3]


----------------------------------------------------------------------------
(* The pointer events as SamplerGUI wires them to its drawer: mousemove
   calls moveTrimBars, mousedown startDrag, and mouseup on the overlay
   canvas stopDrag.  A button released outside the canvas calls nothing. *)

NextGuiBars ==
    \/ \E mousePos \in MousePositions : moveTrimBars(mousePos)
    \/ startDrag
    \/ stopDrag

SpecGuiBars == Init /\ [][NextGuiBars]_vars

\* C31: the two bars are never both marked dragged.
C31_OneBarDragged == ~(leftTrimBar.dragged /\ rightTrimBar.dragged)


----------------------------------------------------------------------------
(* detectSoundSegments followed by splitBuffer on the same buffer, as
   analyzeRecording and splitAndAssignToPads do. *)

\* the one-channel buffer whose samples detectSoundSegments has scanned
analyzedBuffer ==
    [numberOfChannels |-> 1,
     length |-> Len(segInput.data),
     sampleRate |-> segInput.sampleRate,
     duration |-> (Len(segInput.data) * TicksPerSecond) \div segInput.sampleRate,
     channelData |-> [c \in {0} |-> [k \in 0..(Len(segInput.data) - 1) |-> segInput.data[k + 1]]]]

NextSegSplit ==
    \/ Initialize /\ UNCHANGED <<recVars, loopVars, segVars, restVars>>
    \/ segPc = "idle" /\ \E input \in SegInputs : detectSoundSegments(input)
    \/ scanSample
    \/ returnSegments
    \/ segPc = "done" /\ ~splitInput.called /\ splitBuffer(analyzedBuffer, segments)

SpecSegSplit == Init /\ [][NextSegSplit]_vars

\* C32: after detection and splitting, for every region closed by a silence
\* whose segment was returned, the buffer extracted for that segment is
\* among the split buffers and spans the frames from the region's first
\* loud sample to its last loud sample, both included.
C32_NoLoudSampleLost ==
    (segPc = "done" /\ splitInput.called /\ splitInput.initialized) =>
        \A k \in (1..Len(segments)) \ TailSegments :
            \A l \in RegionEnds :
                (TimeOf(RegionFirst(l), segments[k].start) /\ TimeOf(l, segments[k].end)) =>
                    /\ \E j \in 1..Len(splitResult.buffers) :
                          splitResult.buffers[j]
                            = extractBufferSegment(splitInput.buffer, segments[k])
                    /\ floorSample(segments[k].start, segInput.sampleRate) <= RegionFirst(l)
                    /\ floorSample(segments[k].end, segInput.sampleRate) > l

----------------------------------------------------------------------------
(* PadsGrid.loadPreset: every change of the preset input starts one call,   *)
(* and nothing awaits or cancels the call before it.                        *)

MaxPresetCalls == 2
TOTAL_PADS == 16

sample(name, ok, duration) ==
    [name |-> name,
     url |-> [file |-> name, ok |-> ok,
              body |-> [bytes |-> name,
                        decoded |-> IF duration = 0 THEN NullBuffer
                                    ELSE [id |-> name, duration |-> duration]]]]

PresetA == [name |-> "A", samples |-> <<sample("kickA", TRUE, 2), sample("snareA", TRUE, 3)>>]
PresetB == [name |-> "B", samples |-> <<sample("kickB", TRUE, 2), sample("goneB", FALSE, 2),
                                       sample("junkB", TRUE, 0)>>]
Presets == {PresetA, PresetB}

totalSamples(preset) == Min(Len(preset.samples), TOTAL_PADS)

\* the sample the call is loading
sampleOf(call) == call.preset.samples[call.i + 1]

\* the loop of loadPreset after the load of sample i has settled
nextSample(call) ==
    IF call.i + 1 < totalSamples(call.preset)
      THEN [call EXCEPT !.i = call.i + 1, !.pc = "fetching"]
      ELSE [call EXCEPT !.i = call.i + 1, !.pc = "done"]

\* loadPreset up to its first fetch: initialize, clearAll, sample 0
loadPreset(preset) ==
    /\ Len(presetCalls) < MaxPresetCalls
    /\ ctx' = TRUE
    /\ masterGain' = TRUE
    /\ pads' = [i \in DOMAIN initializePads |-> createEmptyPad(i)]
    /\ presetCalls' = Append(presetCalls,
          [preset |-> preset, i |-> 0,
           pc |-> IF totalSamples(preset) > 0 THEN "fetching" ELSE "done",
           overlaps |-> \E c \in 1..Len(presetCalls) :
                           /\ presetCalls[c].pc # "done"
                           /\ presetCalls[c].preset # preset])
    /\ Done("loadPreset", <<preset.name>>, "pending")
    /\ UNCHANGED <<decoding, fetching, started, steps>>

\* the response of the call's fetch is not ok: the throw is caught in the loop
presetFetchFailed(c) ==
    /\ presetCalls[c].pc = "fetching"
    /\ ~sampleOf(presetCalls[c]).url.ok
    /\ presetCalls' = [presetCalls EXCEPT ![c] = nextSample(@)]
    /\ Done("loadPreset.fetchFailed", <<presetCalls[c].preset.name>>, "ok")
    /\ UNCHANGED <<ctx, masterGain, pads, decoding, fetching, started, steps>>

\* the response is ok and its body is read: loadSound starts the decode
presetFetchOk(c) ==
    /\ presetCalls[c].pc = "fetching"
    /\ sampleOf(presetCalls[c]).url.ok
    /\ presetCalls' = [presetCalls EXCEPT ![c].pc = "decoding"]
    /\ Done("loadPreset.fetched", <<presetCalls[c].preset.name>>, "pending")
    /\ UNCHANGED <<ctx, masterGain, pads, decoding, fetching, started, steps>>

\* the decode resolved: loadSound writes the pad now in the slot
presetDecodeResolved(c) ==
    /\ presetCalls[c].pc = "decoding"
    /\ decodeAudioData(sampleOf(presetCalls[c]).url.body) # NullBuffer
    /\ pads' = [pads EXCEPT ![presetCalls[c].i] =
                  loadedPad(@, decodeAudioData(sampleOf(presetCalls[c]).url.body),
                            soundName(presetCalls[c].i, Str(sampleOf(presetCalls[c]).name)))]
    /\ presetCalls' = [presetCalls EXCEPT ![c] = nextSample(@)]
    /\ Done("loadPreset.loaded", <<presetCalls[c].preset.name>>, "ok")
    /\ UNCHANGED <<ctx, masterGain, decoding, fetching, started, steps>>

\* the decode rejected: loadSound rethrows, the loop catches
presetDecodeRejected(c) ==
    /\ presetCalls[c].pc = "decoding"
    /\ decodeAudioData(sampleOf(presetCalls[c]).url.body) = NullBuffer
    /\ pads' = caughtDecodeError(pads, presetCalls[c].i)
    /\ presetCalls' = [presetCalls EXCEPT ![c] = nextSample(@)]
    /\ Done("loadPreset.rejected", <<presetCalls[c].preset.name>>, "ok")
    /\ UNCHANGED <<ctx, masterGain, decoding, fetching, started, steps>>

PresetUnchanged == UNCHANGED <<recVars, loopVars, segVars, splitVars, barVars, wavVars, gridVars, panelVars, samplerVars>>

NextPreset ==
    \/ \E preset \in Presets : loadPreset(preset) /\ PresetUnchanged
    \/ \E c \in DOMAIN presetCalls : presetFetchFailed(c) /\ PresetUnchanged
    \/ \E c \in DOMAIN presetCalls : presetFetchOk(c) /\ PresetUnchanged
    \/ \E c \in DOMAIN presetCalls : presetDecodeResolved(c) /\ PresetUnchanged
    \/ \E c \in DOMAIN presetCalls : presetDecodeRejected(c) /\ PresetUnchanged

SpecPreset == Init /\ [][NextPreset]_vars

\* the preset of the last call
currentPreset == presetCalls[Len(presetCalls)].preset

\* C33: when a preset load that started while another preset was still
\* loading has finished together with it, every loaded pad holds the sample
\* of the later preset at the pad's index.
C33_PresetLoadsDoNotMix ==
    (/\ Len(presetCalls) = 2
     /\ presetCalls[2].overlaps
     /\ \A c \in DOMAIN presetCalls : presetCalls[c].pc = "done") =>
        \A i \in DOMAIN pads :
            pads[i].loaded =>
                /\ i < totalSamples(currentPreset)
                /\ pads[i].buffer = decodeAudioData(currentPreset.samples[i + 1].url.body)
----------------------------------------------------------------------------
(* stopRecording under fair delivery: the browser delivers every event a    *)
(* recorder has queued, and blob.arrayBuffer / decodeAudioData complete.    *)

SpecRecFair ==
    /\ Init
    /\ [][NextRec]_vars
    /\ WF_vars(\E r \in Recorders : \E size \in ChunkSizes : deliverData(r, size))
    /\ WF_vars(\E r \in Recorders : deliverStop(r))
    /\ WF_vars(\E d \in recDecoding : \E decoded \in BOOLEAN : decodeSettled(d, decoded))

StopCalls == 1..MaxRecOps

\* C34: a stopRecording call made while a recording was in progress
\* eventually resolves or rejects, also when stopRecording is called again
\* before it has settled.
C34_StopSettles ==
    \A p \in StopCalls :
        (IF p <= Len(stopCalls) THEN ~stopCalls[p].whenIdle ELSE FALSE) ~>
            (IF p <= Len(stopCalls) THEN stopCalls[p].status # "pending" ELSE FALSE)
----------------------------------------------------------------------------
(* The recording controls of PadsGrid over the engine's recorder.  The code *)
(* after an await runs as a microtask, before any other event or call.      *)

\* the await of a PadsGrid call has been settled and its continuation is due
StartSettled == recLast.op = "startSettled"
StopThrew == recLast.op = "stopRecording" /\ recLast.result = "throws:NoRecording"
StopsSettled == {p \in 1..Len(stopCalls) :
                    stopCalls[p].status # "pending" /\ p \notin gridStopsContinued}
Microtask == gridPc = "initialized" \/ StartSettled \/ StopThrew \/ StopsSettled # {}

\* a startRecording or stopRecording call of PadsGrid has not returned
InFlight ==
    \/ Microtask
    \/ requests > 0
    \/ \E p \in 1..Len(stopCalls) : p \notin gridStopsContinued

PanelRest == UNCHANGED <<loopVars, segVars, splitVars, barVars, wavVars, presetCalls, samplerVars, gridEditor>>

\* PadsGrid.startRecording on an engine not initialized, up to `await initialize()`
padsGridInitialize ==
    /\ ~ctx
    /\ recSteps < MaxRecOps
    /\ Initialize
    /\ gridPc' = "initialized"
    /\ UNCHANGED <<gridIsRecording, showRecordingPanel, gridStopsContinued, recVars, gridVars>>
    /\ PanelRest

\* PadsGrid.startRecording up to `await audioEngine.startRecording()`
padsGridStartRecording ==
    /\ ctx
    /\ startRecording

\* ... after `await initialize()`
padsGridInitialized ==
    /\ gridPc = "initialized"
    /\ RecCall
    /\ requests' = requests + 1
    /\ RecDone("startRecording", "pending", 0)
    /\ gridPc' = "idle"
    /\ UNCHANGED <<mediaRecorder, mediaStream, recordedChunks, streams, recorders,
                   stopCalls, recDecoding, engineVars, gridVars,
                   gridIsRecording, showRecordingPanel, gridStopsContinued>>
    /\ PanelRest

\* the rest of PadsGrid.startRecording: the try block, or the catch block
startRecordingContinued ==
    /\ StartSettled
    /\ IF recLast.result = "ok"
         THEN /\ gridIsRecording' = TRUE
              /\ recordedBuffer' = NullBuffer
              /\ detectedSegments' = <<>>
         ELSE UNCHANGED <<gridIsRecording, recordedBuffer, detectedSegments>>
    /\ RecDone("PadsGrid.startRecording", recLast.result, recLast.subject)
    /\ UNCHANGED <<mediaRecorder, mediaStream, recordedChunks, streams, recorders, requests,
                   stopCalls, recDecoding, recSteps, engineVars, gridLast, gridSteps,
                   showRecordingPanel, gridPc, gridStopsContinued>>
    /\ PanelRest

\* the catch block of PadsGrid.stopRecording when the engine had no recorder
stopRecordingCaught ==
    /\ StopThrew
    /\ gridIsRecording' = FALSE
    /\ RecDone("PadsGrid.stopRecording", "caught", 0)
    /\ UNCHANGED <<mediaRecorder, mediaStream, recordedChunks, streams, recorders, requests,
                   stopCalls, recDecoding, recSteps, engineVars, gridVars,
                   showRecordingPanel, gridPc, gridStopsContinued>>
    /\ PanelRest

\* the rest of PadsGrid.stopRecording once the engine's promise p has settled
stopRecordingContinued(p, autoSplitEnabled, segs) ==
    /\ p \in StopsSettled
    /\ gridIsRecording' = FALSE
    /\ gridStopsContinued' = gridStopsContinued \cup {p}
    /\ IF stopCalls[p].status = "resolved"
         THEN /\ recordedBuffer' = [id |-> "recording", chunks |-> stopCalls[p].buffer]
              /\ detectedSegments' = IF autoSplitEnabled THEN segs ELSE detectedSegments
         ELSE UNCHANGED <<recordedBuffer, detectedSegments>>
    /\ RecDone("PadsGrid.stopRecording", stopCalls[p].status, p)
    /\ UNCHANGED <<mediaRecorder, mediaStream, recordedChunks, streams, recorders, requests,
                   stopCalls, recDecoding, recSteps, engineVars, gridLast, gridSteps,
                   showRecordingPanel, gridPc>>
    /\ PanelRest

\* resetRecordingState: isRecording, recordedBuffer, detectedSegments
resetRecordingState ==
    /\ gridIsRecording' = FALSE
    /\ recordedBuffer' = NullBuffer
    /\ detectedSegments' = <<>>

toggleRecordingPanel ==
    /\ showRecordingPanel' = ~showRecordingPanel
    /\ IF showRecordingPanel
         THEN resetRecordingState
         ELSE UNCHANGED <<gridIsRecording, recordedBuffer, detectedSegments>>
    /\ RecDone("toggleRecordingPanel", "ok", 0)
    /\ UNCHANGED <<mediaRecorder, mediaStream, recordedChunks, streams, recorders, requests,
                   stopCalls, recDecoding, recSteps, engineVars, gridLast, gridSteps,
                   gridPc, gridStopsContinued>>
    /\ PanelRest

NextPanel ==
    \/ ~Microtask /\ padsGridInitialize
    \/ padsGridInitialized
    \/ ~Microtask /\ padsGridStartRecording
    \/ startRecordingContinued
    \/ ~Microtask /\ getUserMediaRejected
    \/ ~Microtask /\ \E supported \in BOOLEAN : getUserMediaResolved(supported)
    \/ ~Microtask /\ \E r \in Recorders : \E size \in ChunkSizes : timeslice(r, size)
    \/ ~Microtask /\ \E r \in Recorders : tracksEnded(r)
    \/ ~Microtask /\ stopRecording
    \/ stopRecordingCaught
    \/ \E p \in StopsSettled : \E autoSplitEnabled \in BOOLEAN : \E segs \in GridSegmentLists :
          stopRecordingContinued(p, autoSplitEnabled, segs)
    \/ ~Microtask /\ \E r \in Recorders : \E size \in ChunkSizes : deliverData(r, size)
    \/ ~Microtask /\ \E r \in Recorders : deliverStop(r)
    \/ ~Microtask /\ \E d \in recDecoding : \E decoded \in BOOLEAN : decodeSettled(d, decoded)
    \/ ~Microtask /\ toggleRecordingPanel

SpecPanel == Init /\ [][NextPanel]_vars

\* C35: whenever the grid's recording flag is off and no startRecording or
\* stopRecording call of the grid is in flight, the engine is not recording
\* and holds no capture stream.
C35_FlagAgreesWithEngine ==
    (~gridIsRecording /\ ~InFlight) =>
        /\ ~isRecording
        /\ mediaStream = 0
----------------------------------------------------------------------------
(* SamplerGUI: selecting a pad.  Times are in hundredths of a second; the   *)
(* durations and positions below are multiples that (x / width) * duration *)
(* and (t / duration) * width turn into whole numbers.                      *)

MaxGuiFrames == 2

GuiPads == {0, 3}
GuiBuffer(i) == IF i = 0 THEN [id |-> "A", duration |-> 90] ELSE [id |-> "B", duration |-> 180]
GuiTrims(i) == IF i = 0 THEN {<<0, 90>>, <<30, 60>>} ELSE {<<0, 180>>, <<20, 90>>}

\* pad i loaded and trimmed to t
GuiPad(i, t) ==
    [loadedPad(createEmptyPad(i), GuiBuffer(i), "kick") EXCEPT !.trimStart = t[1], !.trimEnd = t[2]]

\* (x / width) * duration
pixelToSeconds(x, duration, width) == (x * duration) \div width

\* mutant: the pad is trimmed to the bars' pixels
padFromTrimBars_pixels(ps, padIndex, left, right, width) ==
    IF padIndex < 0 \/ padIndex \notin DOMAIN ps THEN ps
    ELSE IF ~ps[padIndex].loaded THEN ps
    ELSE [ps EXCEPT ![padIndex] = trimmedPad(@, left.x, right.x)]

\* the pads after updatePadFromTrimBars
padFromTrimBars(ps, padIndex, left, right, width) ==
    IF padIndex < 0 \/ padIndex \notin DOMAIN ps THEN ps
    ELSE IF ~ps[padIndex].loaded THEN ps
    ELSE [ps EXCEPT ![padIndex] =
            trimmedPad(@, pixelToSeconds(left.x, ps[padIndex].buffer.duration, width),
                          pixelToSeconds(right.x, ps[padIndex].buffer.duration, width))]

\* the bar positions updateTrimBarsFromPad computes
trimBarsFromPad(pad, width) ==
    LET duration == pad.buffer.duration
        trimStart == Max(0, Min(pad.trimStart, duration))
        trimEnd == Max(trimStart, Min(IF pad.trimEnd = 0 THEN duration ELSE pad.trimEnd, duration))
    IN  <<(trimStart * width) \div duration, (trimEnd * width) \div duration>>

SamplerRest ==
    UNCHANGED <<ctx, masterGain, decoding, fetching, started, last, steps, recVars, loopVars,
                segVars, splitVars, wavVars, gridVars, presetCalls, panelVars, padsBefore>>

selectPad(padIndex) ==
    /\ guiFrames < MaxGuiFrames
    /\ pads' = padFromTrimBars(pads, selectedPadIndex, leftTrimBar, rightTrimBar, CanvasWidth)
    /\ selectedPadIndex' = padIndex
    /\ guiFrames' = IF padIndex \in DOMAIN pads /\ pads[padIndex].loaded
                      THEN guiFrames + 1 ELSE guiFrames
    /\ UNCHANGED barVars
    /\ SamplerRest

\* a frame callback of selectPad runs updateTrimBarsFromPad
selectPadFrame ==
    /\ guiFrames > 0
    /\ guiFrames' = guiFrames - 1
    /\ IF selectedPadIndex >= 0 /\ pads[selectedPadIndex].loaded
            /\ pads[selectedPadIndex].buffer # NullBuffer
         THEN LET xs == trimBarsFromPad(pads[selectedPadIndex], CanvasWidth)
              IN  /\ leftTrimBar' = [leftTrimBar EXCEPT !.x = xs[1]]
                  /\ rightTrimBar' = [rightTrimBar EXCEPT !.x = xs[2]]
         ELSE UNCHANGED <<leftTrimBar, rightTrimBar>>
    /\ UNCHANGED <<barsStart, barsLast, pads, selectedPadIndex>>
    /\ SamplerRest

\* an initialized engine with pads 0 and 3 loaded, and a new SamplerGUI
InitSelect ==
    /\ ctx = TRUE
    /\ masterGain = TRUE
    /\ \E t0 \in GuiTrims(0) : \E t3 \in GuiTrims(3) :
           pads = [i \in DOMAIN initializePads |->
                      IF i \in GuiPads THEN GuiPad(i, IF i = 0 THEN t0 ELSE t3)
                      ELSE initializePads[i]]
    /\ decoding = {}
    /\ fetching = {}
    /\ started = <<>>
    /\ last = [op |-> "initialize", args |-> <<>>, result |-> "ok",
               before |-> <<>>, startedBefore |-> <<>>]
    /\ steps = 0
    /\ InitRec
    /\ InitLoop
    /\ InitSeg
    /\ InitSplit
    /\ InitBars
    /\ InitWav
    /\ InitGrid
    /\ InitPanel
    /\ selectedPadIndex = -1
    /\ guiFrames = 0
    /\ padsBefore = pads

NextSelect ==
    \/ \E padIndex \in GuiPads : selectPad(padIndex)
    \/ selectPadFrame

SpecSelect == InitSelect /\ [][NextSelect]_vars

\* C36: selecting pads, in any timing relative to the frame callbacks,
\* leaves every pad's trimStart and trimEnd as they were.
C36_SelectKeepsTrims ==
    \A i \in DOMAIN pads :
        /\ pads[i].trimStart = padsBefore[i].trimStart
        /\ pads[i].trimEnd = padsBefore[i].trimEnd
----------------------------------------------------------------------------
(* PadsGrid's waveform canvas: trimStart and trimEnd are normalized         *)
(* positions, here in ninetieths.  WaveformDrawer's hit test and position   *)
(* are inputs: 'start', 'end' or null, and a position on the canvas.        *)

TrimBarTargets == {"null", "start", "end"}
TrimPositions == {30, 60}

DragRest ==
    UNCHANGED <<recVars, loopVars, segVars, splitVars, barVars, wavVars, gridVars, presetCalls,
                gridIsRecording, showRecordingPanel, gridPc, gridStopsContinued, samplerVars>>

\* displayWaveform(padIndex)
displayedWaveform(ed, ps, padIndex) ==
    IF ps[padIndex].buffer = NullBuffer THEN ed
    ELSE [ed EXCEPT !.selectedPadIndex = padIndex,
                    !.audioDuration = ps[padIndex].buffer.duration,
                    !.trimStart = (ps[padIndex].trimStart * One) \div ps[padIndex].buffer.duration,
                    !.trimEnd = (ps[padIndex].trimEnd * One) \div ps[padIndex].buffer.duration]

\* playPad(index), from a key or a click on the pad
playPad(index) ==
    /\ Call
    /\ IF ctx /\ index \in DOMAIN pads /\ pads[index].loaded
         THEN /\ started' = startSource(started,
                    playBuffer(pads[index].buffer, pads[index].trimStart,
                               pads[index].trimEnd, pads[index].gain))
              /\ gridEditor' = displayedWaveform(gridEditor, pads, index)
         ELSE UNCHANGED <<started, gridEditor>>
    /\ Done("playPad", <<index>>, "ok")
    /\ UNCHANGED <<ctx, masterGain, pads, decoding, fetching>>
    /\ DragRest

\* onCanvasMouseDown, getTrimBarTarget returning target; the canvas exists
\* once a waveform is displayed
onCanvasMouseDown(target) ==
    /\ gridEditor' = IF gridEditor.selectedPadIndex = NullIndex \/ target = "null"
                       THEN gridEditor
                       ELSE [gridEditor EXCEPT !.isDragging = target,
                                               !.dragPad = gridEditor.selectedPadIndex,
                                               !.trimCalls = {}]
    /\ UNCHANGED engineVars
    /\ DragRest

\* the pads after updateTrimValues
trimValuesUpdated(ps, ed) ==
    IF ed.selectedPadIndex = NullIndex \/ ~isValidPadIndex(ed.selectedPadIndex) THEN ps
    ELSE IF ~ps[ed.selectedPadIndex].loaded \/ ps[ed.selectedPadIndex].buffer = NullBuffer THEN ps
    ELSE [ps EXCEPT ![ed.selectedPadIndex] =
            trimmedPad(@, (ed.trimStart * ed.audioDuration) \div One,
                          (ed.trimEnd * ed.audioDuration) \div One)]

\* onCanvasMouseMove, calculateTrimPosition returning newPosition
onCanvasMouseMove(newPosition) ==
    /\ IF gridEditor.isDragging = "null" \/ gridEditor.selectedPadIndex = NullIndex
         THEN UNCHANGED <<gridEditor, pads>>
         ELSE LET ed == IF gridEditor.isDragging = "start"
                          THEN [gridEditor EXCEPT !.trimStart = newPosition]
                          ELSE [gridEditor EXCEPT !.trimEnd = newPosition]
              IN  /\ pads' = IF ed.selectedPadIndex = -1 THEN pads ELSE trimValuesUpdated(pads, ed)
                  /\ gridEditor' =
                        IF ed.selectedPadIndex = -1 THEN ed
                        ELSE [ed EXCEPT !.trimCalls = @ \cup {ed.selectedPadIndex}]
    /\ UNCHANGED <<ctx, masterGain, decoding, fetching, started, last, steps>>
    /\ DragRest

\* onCanvasMouseUp and onCanvasMouseLeave
onCanvasMouseUp ==
    /\ gridEditor' = [gridEditor EXCEPT !.isDragging = "null"]
    /\ UNCHANGED engineVars
    /\ DragRest

NextTrimDrag ==
    \/ \E index \in GuiPads : playPad(index)
    \/ \E target \in TrimBarTargets : onCanvasMouseDown(target)
    \/ \E newPosition \in TrimPositions : onCanvasMouseMove(newPosition)
    \/ onCanvasMouseUp

SpecTrimDrag == InitSelect /\ [][NextTrimDrag]_vars

\* C37: while a drag is going on, setTrimPoints has been called for no pad
\* but the one displayed when the drag began.
C37_DragEditsItsPad ==
    gridEditor.isDragging # "null" => gridEditor.trimCalls \subseteq {gridEditor.dragPad}
----------------------------------------------------------------------------
(* Recordings and the chunks of earlier recorders *)

ChunksOf(chunks) == {chunks[k].rec : k \in 1..Len(chunks)}

\* C38: the chunks accumulated for the current recorder are its own, and a
\* buffer stopRecording resolved with is made of the chunks of the recorder
\* that call stopped.
C38_RecordingsApart ==
    /\ mediaRecorder # 0 => ChunksOf(recordedChunks) \subseteq {mediaRecorder}
    /\ \A p \in 1..Len(stopCalls) :
          stopCalls[p].status = "resolved" =>
              ChunksOf(stopCalls[p].buffer) \subseteq {stopCalls[p].rec}
----------------------------------------------------------------------------
(* Pad Store calls on any engine state *)

PadStoreOps == {"setTrimPoints", "setGain", "resetPad", "clearPad"}

\* C39: setTrimPoints, setGain, resetPad and clearPad with an index in
\* [0, 16) never raise, and on an engine not initialized they change nothing;
\* loadBuffer with such an index loads the pad or fails leaving the pads as
\* they were.
C39_PadStoreNeverRaises ==
    /\ (last.op \in PadStoreOps /\ InRange(last.args[1])) =>
          /\ last.result \notin Throws
          /\ ~ctx => pads = last.before
    /\ (last.op = "loadBuffer" /\ InRange(last.args[1])) =>
          \/ last.result = "ok" /\ pads[last.args[1]].loaded
          \/ last.result \in Throws /\ pads = last.before
----------------------------------------------------------------------------
(* The waveform editor over a displayed pad: the pointer events of the      *)
(* React WaveformEditor (mousedown tests and starts the drag, mouseleave    *)
(* stops it) and of SamplerGUI (mousedown starts the drag), and the mouseup *)
(* handler both share: stopDrag, then updatePadFromTrimBars.                *)

handleMouseUp ==
    /\ BarsAre(stopDragged(leftTrimBar, rightTrimBar))
    /\ pads' = LET bars == stopDragged(leftTrimBar, rightTrimBar)
               IN  padFromTrimBars(pads, selectedPadIndex, bars[1], bars[2], CanvasWidth)
    /\ barsLast' = [op |-> "handleMouseUp", mousePos |-> barsLast.mousePos,
                    left |-> leftTrimBar, right |-> rightTrimBar]
    /\ UNCHANGED <<barsStart, selectedPadIndex, guiFrames>>
    /\ SamplerRest

\* a loaded pad is displayed and the bars have been pulled from it
InitEditor ==
    /\ ctx = TRUE
    /\ masterGain = TRUE
    /\ \E t0 \in GuiTrims(0) : \E t3 \in GuiTrims(3) :
           pads = [i \in DOMAIN initializePads |->
                      IF i \in GuiPads THEN GuiPad(i, IF i = 0 THEN t0 ELSE t3)
                      ELSE initializePads[i]]
    /\ decoding = {}
    /\ fetching = {}
    /\ started = <<>>
    /\ last = [op |-> "initialize", args |-> <<>>, result |-> "ok",
               before |-> <<>>, startedBefore |-> <<>>]
    /\ steps = 0
    /\ InitRec
    /\ InitLoop
    /\ InitSeg
    /\ InitSplit
    /\ InitWav
    /\ InitGrid
    /\ InitPanel
    /\ selectedPadIndex \in GuiPads
    /\ TrimbarsDrawer(trimBarsFromPad(pads[selectedPadIndex], CanvasWidth)[1],
                      trimBarsFromPad(pads[selectedPadIndex], CanvasWidth)[2])
    /\ guiFrames = 0
    /\ padsBefore = pads

\* pointer positions on, between and beyond the bars
EditorPositions ==
    {[x |-> x, y |-> HandleY] : x \in {-50, 0, 300, 450, 900, 950}} \cup {[x |-> 450, y |-> 100]}

NextEditor ==
    \/ \E mousePos \in EditorPositions : moveTrimBars(mousePos)
    \/ \E mousePos \in EditorPositions : handleMouseDown(mousePos)
    \/ startDrag
    \/ stopDrag
    \/ handleMouseUp

SpecEditor == InitEditor /\ [][NextEditor]_vars

DisplayedPad == pads[selectedPadIndex]

====
